---- MODULE Spec2Model ----
(***************************************************************************)
(* Model of the flashcard generation endpoint POST /api/generate-flashcards *)
(* as implemented twice in the repository: the Express route                *)
(* (backend/server.js) and the Cloudflare worker (worker.js).               *)
(*                                                                          *)
(* Text is kept run-length encoded: a text is a sequence of runs            *)
(* [c |-> token, n |-> repetitions].  A token is one character (" ", "x",   *)
(* "<", ">") or a whole word, whose length is the length of the word.       *)
(* Error messages are kept as the set of the marker substrings they contain *)
(* (the only thing the handlers ever ask of a message is includes()).       *)
(***************************************************************************)
EXTENDS Integers, Sequences, FiniteSets, TLC

(***************************************************************************)
(* Bounds of the model                                                     *)
(***************************************************************************)
\* longest array built from every combination of catalogue items
MaxShort == 2
\* number of items a long array carries beyond the smallest accepted count
MaxExtra == 1

(***************************************************************************)
(* Program constants                                                       *)
(***************************************************************************)
MAX_CONTEXT == 50000
MIN_CONTEXT == 3
MIN_COUNT == 5
MAX_COUNT == 20
TERM_LIMIT == 500
DEF_LIMIT == 2000
MIN_EXPERT_DEF == 150
MIN_EXPERT_KEYWORDS == 2
KV_LIMIT == 10
LIMITER_MAX == 10

supportedLanguages == {"en", "fr", "es", "de", "it", "pt", "ru", "ja", "ko", "zh", "ar", "hi"}

supportedLevels == {"beginner", "intermediate", "advanced", "expert"}

expertKeywords ==
  {"advanced", "sophisticated", "complex", "specialized", "technical", "methodology",
   "parameter", "protocol", "algorithm", "optimization", "coefficient", "analysis",
   "synthesis", "implementation", "configuration", "calibration", "specification",
   "framework", "architecture", "paradigm", "mechanism", "phenomenon", "theoretical",
   "quantum", "differential", "molecular", "computational", "neural", "cryptographic",
   "stochastic", "multivariate", "probabilistic", "algorithmic", "thermodynamic"}

bannedSimpleTerms ==
  {"basic", "simple", "easy", "introduction to", "beginner", "fundamental",
   "overview", "elementary", "starting", "first step", "learn about"}

(***************************************************************************)
(* Text                                                                    *)
(***************************************************************************)
Min(a, b) == IF a < b THEN a ELSE b

Run(c, n) == [c |-> c, n |-> n]

\* number of characters of a run
RunLen(r) == r.n * Len(r.c)

RECURSIVE Length(_)
Length(t) == IF t = <<>> THEN 0 ELSE RunLen(Head(t)) + Length(Tail(t))

IsSpace(r) == r.c \in {" ", "\n", "\t", "\r"}

RECURSIVE TrimStart(_)
TrimStart(t) ==
  IF t = <<>> THEN <<>>
  ELSE IF IsSpace(Head(t)) THEN TrimStart(Tail(t)) ELSE t

RECURSIVE TrimEnd(_)
TrimEnd(t) ==
  IF t = <<>> THEN <<>>
  ELSE IF IsSpace(t[Len(t)]) THEN TrimEnd(SubSeq(t, 1, Len(t) - 1)) ELSE t

\* String.prototype.trim
Trim(t) == TrimEnd(TrimStart(t))

\* String.prototype.substring(0, k): a cut inside a word leaves its first
\* letters, which are kept as that many plain letters
RECURSIVE Substring(_, _)
Substring(t, k) ==
  IF t = <<>> \/ k <= 0 THEN <<>>
  ELSE IF RunLen(Head(t)) <= k
       THEN <<Head(t)>> \o Substring(Tail(t), k - RunLen(Head(t)))
       ELSE IF Len(Head(t).c) = 1 THEN <<Run(Head(t).c, k)>> ELSE <<Run("x", k)>>

\* replace(/[<>]/g, '')
StripAngle(t) == SelectSeq(t, LAMBDA r : r.c \notin {"<", ">"})

ToLowerCase(t) == [i \in 1..Len(t) |-> Run(IF t[i].c = "Quantum" THEN "quantum" ELSE t[i].c, t[i].n)]

\* the keyword list has one member that is a substring of another member
WordIncludes(c, w) == c = w \/ (c = "algorithmic" /\ w = "algorithm")

\* String.prototype.includes(w) for a word w
Includes(t, w) == \E i \in 1..Len(t) : WordIncludes(t[i].c, w)

(***************************************************************************)
(* Items of a parsed response                                              *)
(***************************************************************************)
Str(s) == [t |-> "str", s |-> s]
Undef == [t |-> "undef", s |-> <<>>]

Obj(term, definition) == [kind |-> "object", term |-> term, definition |-> definition]
NullItem == [kind |-> "null", term |-> Undef, definition |-> Undef]

\* the filter predicate of validCards
IsValidCard(item) ==
  /\ item.kind = "object"
  /\ item.term.t = "str"
  /\ item.definition.t = "str"
  /\ Length(Trim(item.term.s)) > 0
  /\ Length(Trim(item.definition.s)) > 0

validCardsOf(parsedData) == SelectSeq(parsedData, IsValidCard)

\* a handler that forgets to truncate
SliceAll(cards, count2) == cards

\* Array.prototype.slice(0, count); count is kept in half units, and slice
\* truncates a fractional count
Slice(cards, count2) == SubSeq(cards, 1, Min(Len(cards), count2 \div 2))

\* a policy that accepts a definition of exactly the minimum length
IsExpertCardLax(card) ==
  /\ \A w \in bannedSimpleTerms : ~Includes(ToLowerCase(card.term.s \o <<Run(" ", 1)>> \o card.definition.s), w)
  /\ Cardinality({w \in expertKeywords :
                    Includes(ToLowerCase(card.term.s \o <<Run(" ", 1)>> \o card.definition.s), w)})
       >= MIN_EXPERT_KEYWORDS
  /\ Length(card.definition.s) >= MIN_EXPERT_DEF

\* the callback of every() in the expert check
IsExpertCard(card) ==
  LET combined == ToLowerCase(card.term.s \o <<Run(" ", 1)>> \o card.definition.s)
      hasSimpleTerms == \E w \in bannedSimpleTerms : Includes(combined, w)
      expertKeywordCount == Cardinality({w \in expertKeywords : Includes(combined, w)})
  IN  /\ ~hasSimpleTerms
      /\ expertKeywordCount >= MIN_EXPERT_KEYWORDS
      /\ Length(card.definition.s) > MIN_EXPERT_DEF

hasExpertContent(cards) == \A i \in 1..Len(cards) : IsExpertCard(cards[i])

\* a sanitizer that strips the brackets before it cuts
SanitizeStripFirst(card) ==
  [term |-> Substring(StripAngle(Trim(card.term.s)), TERM_LIMIT),
   definition |-> Substring(StripAngle(Trim(card.definition.s)), DEF_LIMIT)]

\* one element of sanitizedCards
SanitizeCard(card) ==
  [term |-> StripAngle(Substring(Trim(card.term.s), TERM_LIMIT)),
   definition |-> StripAngle(Substring(Trim(card.definition.s), DEF_LIMIT))]

sanitizedCardsOf(finalCards) == [i \in 1..Len(finalCards) |-> SanitizeCard(finalCards[i])]

(***************************************************************************)
(* Request bodies                                                          *)
(***************************************************************************)
\* a whole <script>...</script> element inside the context
ScriptElement == "<script>x</script>"

Num(v2) == [t |-> "num", v2 |-> v2]
NoNum == [t |-> "undef", v2 |-> 0]
StrNum == [t |-> "str", v2 |-> 0]

Name(v) == [t |-> "str", v |-> v]
NoName == [t |-> "undef", v |-> ""]

\* kind: "malformed" (the bytes are not JSON), "null" (the JSON value null),
\* "object" (a JSON object; a missing field is undefined)
Body(kind, context, language, count, level) ==
  [kind |-> kind, context |-> context, language |-> language, count |-> count, level |-> level]

\* !v for a string-or-undefined field
Falsy(f) == f.t = "undef" \/ (f.t = "str" /\ f.s = <<>>)

\* context.replace(/<script\b[^<]*(?:(?!<\/script>)<[^<]*)*<\/script>/gi, '')
StripScripts(t) == SelectSeq(t, LAMBDA r : r.c # ScriptElement)

\* the checks of validateInput, in order; "" when the body passes
ValidationError(b) ==
  IF Falsy(b.context) \/ b.context.t # "str" THEN "Invalid context provided"
  ELSE IF Length(b.context.s) > MAX_CONTEXT THEN "Context too long"
  ELSE IF Length(Trim(b.context.s)) < MIN_CONTEXT THEN "Context too short"
  ELSE IF b.language.t # "str" \/ b.language.v \notin supportedLanguages THEN "Unsupported language"
  ELSE IF b.count.t # "num" \/ b.count.v2 = 0 \/ b.count.v2 < 2 * MIN_COUNT \/ b.count.v2 > 2 * MAX_COUNT
       THEN "Invalid count"
  ELSE IF b.level.t # "str" \/ b.level.v = "" THEN "Invalid difficulty level provided"
  ELSE IF b.level.v \notin supportedLevels THEN "Invalid difficulty level"
  ELSE ""

\* the values the handler works with once the body has passed
Destructure(b) ==
  [context |-> StripScripts(b.context.s), language |-> b.language.v,
   count2 |-> b.count.v2, level |-> b.level.v]

NoReq == [context |-> <<>>, language |-> "", count2 |-> 0, level |-> ""]

(***************************************************************************)
(* Provider outcomes and raw model output                                  *)
(*                                                                         *)
(* A raw output is kept as what the cleaning chain and JSON.parse make of  *)
(* it: "empty" (no text), "json" (the cleaned text parses, to the value    *)
(* given), "broken" (the cleaned text does not parse; pairs are the        *)
(* "term": "...", "definition": "..." matches it contains and words the    *)
(* marker substrings its first characters contain).                        *)
(***************************************************************************)
Parsed(isArray, items) == [isArray |-> isArray, items |-> items]

Raw(kind, value, pairs, words) == [kind |-> kind, value |-> value, pairs |-> pairs, words |-> words]

EmptyRaw == Raw("empty", Parsed(FALSE, <<>>), <<>>, {})
JsonRaw(value) == Raw("json", value, <<>>, {})
BrokenRaw(pairs, words) == Raw("broken", Parsed(FALSE, <<>>), pairs, words)

\* t: "throw" (the call rejects with an error carrying msg), "notok" (HTTP
\* status outside 2xx, worker only), "text" (a completion)
Outcome(t, msg, raw) == [t |-> t, msg |-> msg, raw |-> raw]

Threw(msg) == Outcome("throw", msg, EmptyRaw)
NotOk == Outcome("notok", {}, EmptyRaw)
Text(raw) == Outcome("text", {}, raw)
NoOutcome == Outcome("none", {}, EmptyRaw)

\* result of a parsing step: ok, or the message of the error thrown
ParseOk(value) == [ok |-> TRUE, value |-> value, msg |-> {}]
ParseFail(msg) == [ok |-> FALSE, value |-> Parsed(FALSE, <<>>), msg |-> msg]

\* JSON.parse of the cleaned text, without any fallback
StrictParse(raw) == IF raw.kind = "json" THEN ParseOk(raw.value) ELSE ParseFail({"JSON"})

\* termDefMatches.map(...): the items rebuilt from the pattern matches
FallbackItems(raw) == [i \in 1..Len(raw.pairs) |-> Obj(Str(raw.pairs[i][1]), Str(raw.pairs[i][2]))]

\* server.js: JSON.parse, then the pattern fallback; quoted are the marker
\* substrings of the raw text that the engine's SyntaxError message repeats
ExpressParse(raw, quoted) ==
  IF raw.kind = "json" THEN ParseOk(raw.value)
  ELSE IF Len(raw.pairs) > 0 THEN ParseOk(Parsed(TRUE, FallbackItems(raw)))
  ELSE ParseFail({"parse", "JSON"} \cup quoted)

\* worker.js: JSON.parse only
WorkerParse(raw) ==
  IF raw.kind = "json" THEN ParseOk(raw.value) ELSE ParseFail({"parse"})

(***************************************************************************)
(* Responses                                                               *)
(***************************************************************************)
Response(status, error, flashcards) == [status |-> status, error |-> error, flashcards |-> flashcards]

NoResp == Response(0, "", <<>>)
ErrorResponse(status, error) == Response(status, error, <<>>)
Success(cards) == Response(200, "", cards)

\* a catch block that rethrows what it does not recognise
ExpressCatchRethrow(msg) ==
  IF "API" \in msg \/ "quota" \in msg
    THEN ErrorResponse(503, "AI service temporarily unavailable. Please try again later.")
  ELSE IF "JSON" \in msg \/ "parse" \in msg
    THEN ErrorResponse(500, "The AI generated an invalid response.")
  ELSE IF "No valid flashcards" \in msg
    THEN ErrorResponse(400, "Unable to generate valid flashcards from this content.")
  ELSE NoResp

\* the catch block of the Express route
ExpressCatch(msg) ==
  IF "API" \in msg \/ "quota" \in msg
    THEN ErrorResponse(503, "AI service temporarily unavailable. Please try again later.")
  ELSE IF "JSON" \in msg \/ "parse" \in msg
    THEN ErrorResponse(500, "The AI generated an invalid response.")
  ELSE IF "No valid flashcards" \in msg
    THEN ErrorResponse(400, "Unable to generate valid flashcards from this content.")
  ELSE ErrorResponse(500, "An unexpected error occurred. Please try again.")

\* the catch block of the worker
WorkerCatch(msg) ==
  IF "AI service" \in msg
    THEN ErrorResponse(503, "AI service temporarily unavailable. Please try again later.")
  ELSE IF "JSON" \in msg \/ "parse" \in msg
    THEN ErrorResponse(500, "The AI generated an invalid response.")
  ELSE IF "No valid flashcards" \in msg
    THEN ErrorResponse(400, "Unable to generate valid flashcards from this content.")
  ELSE ErrorResponse(500, "An unexpected error occurred. Please try again.")

(***************************************************************************)
(* Inputs the model draws from                                             *)
(***************************************************************************)
X(n) == <<Run("x", n)>>

CtxOk == X(10)
CtxShort == X(2)
CtxBlank == <<Run(" ", 5)>>
CtxScriptOnly == <<Run(ScriptElement, 1)>>
CtxTooLong == X(MAX_CONTEXT + 1)

Contexts ==
  {Undef, [t |-> "num", s |-> <<>>], Str(<<>>), Str(CtxShort), Str(CtxBlank),
   Str(CtxOk), Str(CtxScriptOnly), Str(CtxTooLong)}

Languages == {NoName, Name("en"), Name("xx")}

\* counts in half units: 4, 5, 5.5, 20, 21, and a string, and none
Counts == {NoNum, StrNum, Num(8), Num(10), Num(11), Num(40), Num(42)}

Levels == {NoName, Name("beginner"), Name("expert"), Name("guru")}

Bodies ==
  {Body("malformed", Undef, NoName, NoNum, NoName), Body("null", Undef, NoName, NoNum, NoName)}
  \cup {Body("object", c, l, n, v) : c \in Contexts, l \in Languages, n \in Counts, v \in Levels}

SimpleCard == Obj(Str(X(5)), Str(<<Run("basic", 1), Run(" ", 1), Run("x", 20)>>))

ExpertCard ==
  Obj(Str(<<Run("Quantum", 1), Run(" ", 1), Run("x", 11)>>),
      Str(<<Run("stochastic", 1), Run(" ", 1), Run("x", 160)>>))

ExpertCard2 == Obj(Str(<<Run("neural", 1)>>), Str(<<Run("x", 150), Run(" ", 1), Run("algorithmic", 1)>>))

\* two expert keywords, nothing banned, a definition of exactly 150 characters
EdgeLengthCard ==
  Obj(Str(<<Run("neural", 1)>>), Str(<<Run("stochastic", 1), Run(" ", 1), Run("x", 139)>>))

\* one expert keyword only
OneKeywordCard == Obj(Str(X(5)), Str(<<Run("Quantum", 1), Run(" ", 1), Run("x", 160)>>))

\* two expert keywords and a banned word
BannedExpertCard ==
  Obj(Str(<<Run("Quantum", 1)>>),
      Str(<<Run("stochastic", 1), Run(" ", 1), Run("simple", 1), Run(" ", 1), Run("x", 160)>>))

\* one word that contains two members of the keyword list
AlgorithmicCard == Obj(Str(X(5)), Str(<<Run("algorithmic", 1), Run(" ", 1), Run("x", 160)>>))

PaddedCard == Obj(Str(<<Run(" ", 1), Run("<", 1), Run("x", 3), Run(">", 1), Run(" ", 1)>>), Str(X(8)))

NoDefItem == Obj(Str(X(4)), Undef)

BlankTermItem == Obj(Str(<<Run(" ", 2)>>), Str(X(6)))

\* a card whose term is nothing but angle brackets
AngleCard == Obj(Str(<<Run("<", 1), Run(">", 1)>>), Str(X(8)))

\* a card whose trimmed term has 600 characters and whose definition has 2100
LongCard == Obj(Str(<<Run(" ", 2), Run("x", 600), Run(" ", 1)>>), Str(X(2100)))

\* a card whose term is cut inside its whitespace and whose definition starts
\* with angle brackets and is longer than the limit
CutCard ==
  Obj(Str(<<Run("<", 1), Run(" ", 499), Run("x", 1)>>), Str(<<Run("<", 100), Run("x", 2000)>>))

Catalogue == {NoDefItem, SimpleCard, ExpertCard}

ShortArrays == UNION {[1..n -> Catalogue] : n \in 0..MaxShort}

\* MIN_COUNT copies of one card followed by up to MaxExtra further items
LongArrays ==
  UNION {{[i \in 1..MIN_COUNT |-> h] \o t : h \in {SimpleCard, ExpertCard}, t \in [1..n -> Catalogue]} :
         n \in 1..MaxExtra}

Arrays ==
  ShortArrays \cup LongArrays
  \cup {<<NullItem>>, <<BlankTermItem>>, <<ExpertCard2>>, <<PaddedCard>>, <<ExpertCard2, PaddedCard>>}
  \cup {<<AngleCard>>, <<LongCard>>, <<CutCard>>}
  \cup {<<EdgeLengthCard>>, <<OneKeywordCard>>, <<BannedExpertCard>>, <<AlgorithmicCard>>}

RawOutputs ==
  {EmptyRaw, JsonRaw(Parsed(FALSE, <<>>))}
  \cup {JsonRaw(Parsed(TRUE, a)) : a \in Arrays}
  \cup {BrokenRaw(<<>>, w) : w \in {{}, {"API"}, {"quota"}}}
  \cup {BrokenRaw(<<<<X(3), X(7)>>>>, {}), BrokenRaw(<<<<<<>>, X(7)>>>>, {})}

\* messages of the errors a provider call can reject with
ProviderMsgs == {{}, {"API"}, {"quota"}, {"JSON"}}

ExpressOutcomes == {Threw(m) : m \in ProviderMsgs} \cup {Text(r) : r \in RawOutputs}

WorkerOutcomes == ExpressOutcomes \cup {NotOk}

(***************************************************************************)
(* The steps of the two handlers                                           *)
(***************************************************************************)
Step(next, resp, parsedData, validCards, finalCards) ==
  [next |-> next, resp |-> resp, parsedData |-> parsedData, validCards |-> validCards,
   finalCards |-> finalCards]

Fail(resp) == Step("respond", resp, <<>>, <<>>, <<>>)

\* a route without the validCards.length === 0 check
ExpressFirstNoEmptyCheck(r, o, quoted) ==
  IF o.t # "text" THEN Fail(ExpressCatch(o.msg))
  ELSE LET p == ExpressParse(o.raw, quoted)
           valid == validCardsOf(p.value.items)
       IN  IF ~p.ok THEN Fail(ExpressCatch(p.msg))
           ELSE IF ~p.value.isArray THEN Fail(ExpressCatch({}))
           ELSE IF r.level = "expert" /\ ~hasExpertContent(valid)
                THEN Step("regen", NoResp, p.value.items, valid, <<>>)
           ELSE Step("respond", Success(sanitizedCardsOf(Slice(valid, r.count2))),
                     p.value.items, valid, Slice(valid, r.count2))

\* server.js, from the first reply to the expert check
ExpressFirst(r, o, quoted) ==
  IF o.t # "text" THEN Fail(ExpressCatch(o.msg))
  ELSE LET p == ExpressParse(o.raw, quoted)
           valid == validCardsOf(p.value.items)
       IN  IF ~p.ok THEN Fail(ExpressCatch(p.msg))
           ELSE IF ~p.value.isArray THEN Fail(ExpressCatch({}))
           ELSE IF Len(valid) = 0 THEN Fail(ExpressCatch({"No valid flashcards"}))
           ELSE IF r.level = "expert" /\ ~hasExpertContent(valid)
                THEN Step("regen", NoResp, p.value.items, valid, <<>>)
           ELSE Step("respond", Success(sanitizedCardsOf(Slice(valid, r.count2))),
                     p.value.items, valid, Slice(valid, r.count2))

\* server.js, the try block of the regeneration: the new value of parsedData
ExpressRegen(parsedData, o) ==
  LET p == StrictParse(o.raw)
  IN  IF o.t = "text" /\ p.ok /\ p.value.isArray /\ Len(p.value.items) > 0
      THEN p.value.items ELSE parsedData

\* worker.js, from the first reply to the expert check
WorkerFirst(r, o) ==
  IF o.t = "throw" THEN Fail(WorkerCatch(o.msg))
  ELSE IF o.t = "notok" THEN Fail(WorkerCatch({"AI service"}))
  ELSE IF o.raw.kind = "empty" THEN Fail(WorkerCatch({"AI service"}))
  ELSE LET p == WorkerParse(o.raw)
           valid == validCardsOf(p.value.items)
           final == Slice(valid, r.count2)
       IN  IF ~p.ok THEN Fail(WorkerCatch(p.msg))
           ELSE IF ~p.value.isArray THEN Fail(WorkerCatch({}))
           ELSE IF Len(valid) = 0 THEN Fail(WorkerCatch({"No valid flashcards"}))
           ELSE IF r.level = "expert" /\ ~hasExpertContent(final)
                THEN Step("regen", NoResp, p.value.items, valid, final)
           ELSE Step("respond", Success(sanitizedCardsOf(final)), p.value.items, valid, final)

\* a regeneration that takes the new cards without looking whether any is valid
WorkerRegenUnguarded(finalCards, o, count2) ==
  LET p == StrictParse(o.raw)
      regenValidCards == validCardsOf(p.value.items)
  IN  IF /\ o.t = "text" /\ o.raw.kind # "empty"
         /\ p.ok /\ p.value.isArray /\ Len(p.value.items) > 0
      THEN Slice(regenValidCards, count2) ELSE finalCards

\* worker.js, the try block of the regeneration: the new value of finalCards
WorkerRegen(finalCards, o, count2) ==
  LET p == StrictParse(o.raw)
      regenValidCards == validCardsOf(p.value.items)
  IN  IF /\ o.t = "text" /\ o.raw.kind # "empty"
         /\ p.ok /\ p.value.isArray /\ Len(p.value.items) > 0
         /\ Len(regenValidCards) > 0
      THEN Slice(regenValidCards, count2) ELSE finalCards

\* an update that stores '1' whatever the entry holds
KvOverwrite(entry) == [present |-> TRUE, value |-> 1]

\* RATE_LIMIT_KV.put(rateLimitKey, String(parseInt(currentCount) + 1), ...)
KvIncrement(entry) == [present |-> TRUE, value |-> (IF entry.present THEN entry.value ELSE 0) + 1]

NoEntry == [present |-> FALSE, value |-> 0]

\* a check that lets the request at the limit through
RateLimitedAbove(entry) == entry.present /\ entry.value > KV_LIMIT

\* currentCount && parseInt(currentCount) >= 10
RateLimited(entry) == entry.present /\ entry.value >= KV_LIMIT

(***************************************************************************)
(* Raw model text, character by character                                  *)
(*                                                                         *)
(* Here a text is a sequence of one-character strings, and the cleaning    *)
(* chain, JSON.parse and the pattern fallback work on the characters.      *)
(***************************************************************************)
DQ == "\""
SQ == "'"
BS == "\\"
NL == "\n"
\* the backtick, which a TLA+ string cannot hold
BT == "BACKTICK"

\* \s
IsWs(c) == c \in {" ", "\n", "\t", "\r"}

\* [\u0000-\u001F\u007F-\u009F]
IsControl(c) == c \in {"\n", "\t", "\r"}

\* \w
IsWordChar(c) ==
  c \in {"a", "b", "c", "d", "e", "f", "g", "h", "i", "j", "k", "l", "m", "n", "o", "p", "q",
         "r", "s", "t", "u", "v", "w", "x", "y", "z", "A", "B", "C", "D", "E", "F", "G", "H",
         "0", "1", "2", "3", "4", "5", "6", "7", "8", "9", "_"}

\* first index from i on that does not hold whitespace (Len(s) + 1 if none)
RECURSIVE SkipWs(_, _)
SkipWs(s, i) == IF i <= Len(s) /\ IsWs(s[i]) THEN SkipWs(s, i + 1) ELSE i

\* first index from i on that does not hold a word character
RECURSIVE SkipWord(_, _)
SkipWord(s, i) == IF i <= Len(s) /\ IsWordChar(s[i]) THEN SkipWord(s, i + 1) ELSE i

\* least and greatest element of a set of indices, 0 if it is empty
First(S) == IF S = {} THEN 0 ELSE CHOOSE x \in S : \A y \in S : x <= y
Last(S) == IF S = {} THEN 0 ELSE CHOOSE x \in S : \A y \in S : x >= y

\* first index from i on that holds c, 0 if none
IndexOf(s, c, i) == First({j \in i..Len(s) : s[j] = c})

\* last index up to i that holds c, 0 if none
LastIndexOf(s, c, i) == Last({j \in 1..i : s[j] = c})

\* last index in lo..hi that does not hold whitespace, lo - 1 if none
LastNonWs(s, lo, hi) ==
  LET S == {j \in lo..hi : ~IsWs(s[j])} IN IF S = {} THEN lo - 1 ELSE Last(S)

StartsWithAt(s, i, lit) == i + Len(lit) - 1 <= Len(s) /\ SubSeq(s, i, i + Len(lit) - 1) = lit

\* String.prototype.trim on characters
TrimText(s) == SubSeq(s, SkipWs(s, 1), LastNonWs(s, 1, Len(s)))

Fence == <<BT, BT, BT>>

\* a fence pattern whose group ends one character early
FenceStripShort(s) ==
  LET n == Len(s)
      a == SkipWs(s, SkipWord(s, 4))
      b == LastNonWs(s, a, n - 4)
  IN  IF n >= 6 /\ StartsWithAt(s, 1, Fence) /\ StartsWithAt(s, n - 2, Fence) /\ a <= b
      THEN TrimText(SubSeq(s, a, b)) ELSE s

\* match = jsonStr.match(/^```(\w*)?\s*\n?(.*?)\n?\s*```$/s);
\* if (match && match[2]) jsonStr = match[2].trim()
FenceStrip(s) ==
  LET n == Len(s)
      a == SkipWs(s, SkipWord(s, 4))
      b == LastNonWs(s, a, n - 3)
  IN  IF n >= 6 /\ StartsWithAt(s, 1, Fence) /\ StartsWithAt(s, n - 2, Fence) /\ a <= b
      THEN TrimText(SubSeq(s, a, b)) ELSE s

\* jsonStartMatch = jsonStr.match(/\[.*\]/s): first '[' to last ']'
BracketSlice(s) ==
  LET i == IndexOf(s, "[", 1)
      j == LastIndexOf(s, "]", Len(s))
  IN  IF i > 0 /\ j > i THEN SubSeq(s, i, j) ELSE s

\* replace(/[\u0000-\u001F\u007F-\u009F]/g, '')
StripControl(s) == SelectSeq(s, LAMBDA c : ~IsControl(c))

\* /,(\s*[}\]])/ matches at i
TrailingCommaAt(s, i) ==
  LET j == SkipWs(s, i + 1) IN s[i] = "," /\ j <= Len(s) /\ s[j] \in {"}", "]"}

\* replace(/,(\s*[}\]])/g, '$1'), from index i on: the text up to the next
\* match, the replacement, and the rest from the end of the match on
RECURSIVE RemoveTrailingCommasFrom(_, _)
RemoveTrailingCommasFrom(s, i) ==
  LET m == First({j \in i..Len(s) : TrailingCommaAt(s, j)})
      e == SkipWs(s, m + 1)
  IN  IF m = 0 THEN SubSeq(s, i, Len(s))
      ELSE SubSeq(s, i, m - 1) \o SubSeq(s, m + 1, e) \o RemoveTrailingCommasFrom(s, e + 1)

RemoveTrailingCommas(s) == RemoveTrailingCommasFrom(s, 1)

\* /([{,]\s*)(\w+):/ matches at i
BareKeyAt(s, i) ==
  LET j == SkipWs(s, i + 1)
      k == SkipWord(s, j)
  IN  s[i] \in {"{", ","} /\ k > j /\ k <= Len(s) /\ s[k] = ":"

\* replace(/([{,]\s*)(\w+):/g, '$1"$2":'), from index i on
RECURSIVE QuoteKeysFrom(_, _)
QuoteKeysFrom(s, i) ==
  LET m == First({j \in i..Len(s) : BareKeyAt(s, j)})
      j == SkipWs(s, m + 1)
      k == SkipWord(s, j)
  IN  IF m = 0 THEN SubSeq(s, i, Len(s))
      ELSE SubSeq(s, i, j - 1) \o <<DQ>> \o SubSeq(s, j, k - 1) \o <<DQ, ":">>
           \o QuoteKeysFrom(s, k + 1)

QuoteKeys(s) == QuoteKeysFrom(s, 1)

\* /:\s*'([^']*?)'/ matches at i
SingleQuotedAt(s, i) ==
  LET j == SkipWs(s, i + 1)
  IN  s[i] = ":" /\ j <= Len(s) /\ s[j] = SQ /\ IndexOf(s, SQ, j + 1) > 0

\* replace(/:\s*'([^']*?)'/g, ': "$1"'), from index i on
RECURSIVE ConvertSingleQuotesFrom(_, _)
ConvertSingleQuotesFrom(s, i) ==
  LET m == First({j \in i..Len(s) : SingleQuotedAt(s, j)})
      j == SkipWs(s, m + 1)
      k == IndexOf(s, SQ, j + 1)
  IN  IF m = 0 THEN SubSeq(s, i, Len(s))
      ELSE SubSeq(s, i, m - 1) \o <<":", " ", DQ>> \o SubSeq(s, j + 1, k - 1) \o <<DQ>>
           \o ConvertSingleQuotesFrom(s, k + 1)

ConvertSingleQuotes(s) == ConvertSingleQuotesFrom(s, 1)

\* replace(/\\n/g, '\\\\n') and the like: a backslash followed by the letter
\* becomes two backslashes followed by the letter
RECURSIVE EscapeFrom(_, _, _)
EscapeFrom(s, letter, i) ==
  LET m == First({j \in i..Len(s) - 1 : s[j] = BS /\ s[j + 1] = letter})
  IN  IF m = 0 THEN SubSeq(s, i, Len(s))
      ELSE SubSeq(s, i, m - 1) \o <<BS, BS, letter>> \o EscapeFrom(s, letter, m + 2)

Escape(s, letter) == EscapeFrom(s, letter, 1)

\* the cleaning of worker.js: fence, brackets, four repairs
WorkerClean(text) ==
  ConvertSingleQuotes(QuoteKeys(RemoveTrailingCommas(StripControl(
    BracketSlice(FenceStrip(TrimText(text)))))))

\* the cleaning of server.js: the same, then the three escapes
ExpressClean(text) ==
  Escape(Escape(Escape(ConvertSingleQuotes(QuoteKeys(RemoveTrailingCommas(StripControl(
    BracketSlice(FenceStrip(TrimText(text))))))), "n"), "r"), "t")

\* result of reading one piece of JSON text: the value and the index after it
Read(val, next) == [ok |-> TRUE, val |-> val, next |-> next]
NoRead == [ok |-> FALSE, val |-> <<>>, next |-> 0]

\* the character an escape letter stands for, "" if JSON knows no such escape
\* (\u escapes are not read)
Unescape(c) ==
  CASE c = "n" -> "\n"
    [] c = "t" -> "\t"
    [] c = "r" -> "\r"
    [] c = "b" -> "BACKSPACE"
    [] c = "f" -> "FORMFEED"
    [] c \in {DQ, BS, "/"} -> c
    [] OTHER -> ""

\* JSON.parse inside a string: i is the index after the opening quote
RECURSIVE ReadString(_, _, _)
ReadString(s, i, acc) ==
  IF i > Len(s) THEN NoRead
  ELSE IF s[i] = DQ THEN Read(acc, i + 1)
  ELSE IF s[i] = BS
       THEN IF i < Len(s) /\ Unescape(s[i + 1]) # ""
            THEN ReadString(s, i + 2, Append(acc, Unescape(s[i + 1])))
            ELSE NoRead
  ELSE IF IsControl(s[i]) THEN NoRead
  ELSE ReadString(s, i + 1, Append(acc, s[i]))

\* JSON.parse inside an object whose members hold strings.  ReadMembers
\* starts at the index i where a key has to start, with the <<key, value>>
\* pairs read so far; the operators after it take over at the key read, at
\* the colon, at the value, at the value read and at what follows it.
RECURSIVE ReadMembers(_, _, _)

AtMemberEnd(s, acc, e) ==
  IF e > Len(s) THEN NoRead
  ELSE IF s[e] = "}" THEN Read(acc, e + 1)
  ELSE IF s[e] = "," THEN ReadMembers(s, SkipWs(s, e + 1), acc)
  ELSE NoRead

AfterValue(s, acc, key, v) ==
  IF ~v.ok THEN NoRead ELSE AtMemberEnd(s, Append(acc, <<key, v.val>>), SkipWs(s, v.next))

AtValue(s, acc, key, q) ==
  IF q > Len(s) \/ s[q] # DQ THEN NoRead
  ELSE AfterValue(s, acc, key, ReadString(s, q + 1, <<>>))

AtColon(s, acc, key, c) ==
  IF c > Len(s) \/ s[c] # ":" THEN NoRead ELSE AtValue(s, acc, key, SkipWs(s, c + 1))

AfterKey(s, acc, k) ==
  IF ~k.ok THEN NoRead ELSE AtColon(s, acc, k.val, SkipWs(s, k.next))

ReadMembers(s, i, acc) ==
  IF i > Len(s) \/ s[i] # DQ THEN NoRead ELSE AfterKey(s, acc, ReadString(s, i + 1, <<>>))

\* a parsed array element: an object with its members, or something else
Element(object, members) == [object |-> object, members |-> members]

AsObject(m) == IF m.ok THEN Read(Element(TRUE, m.val), m.next) ELSE NoRead

AsOther(v) == IF v.ok THEN Read(Element(FALSE, <<>>), v.next) ELSE NoRead

\* j is the index of the first character after '{' and whitespace
ReadObject(s, j) ==
  IF j <= Len(s) /\ s[j] = "}" THEN Read(Element(TRUE, <<>>), j + 1)
  ELSE AsObject(ReadMembers(s, j, <<>>))

\* an array element: an object of string members, a string or null
ReadElement(s, i) ==
  IF s[i] = "{" THEN ReadObject(s, SkipWs(s, i + 1))
  ELSE IF s[i] = DQ THEN AsOther(ReadString(s, i + 1, <<>>))
  ELSE IF StartsWithAt(s, i, <<"n", "u", "l", "l">>) THEN Read(Element(FALSE, <<>>), i + 4)
  ELSE NoRead

\* JSON.parse inside an array: i is the index where an element has to start
RECURSIVE ReadElements(_, _, _)

AtElementEnd(s, acc, e) ==
  IF e > Len(s) THEN NoRead
  ELSE IF s[e] = "]" THEN Read(acc, e + 1)
  ELSE IF s[e] = "," THEN ReadElements(s, SkipWs(s, e + 1), acc)
  ELSE NoRead

AfterElement(s, acc, x) ==
  IF ~x.ok THEN NoRead ELSE AtElementEnd(s, Append(acc, x.val), SkipWs(s, x.next))

ReadElements(s, i, acc) ==
  IF i > Len(s) THEN NoRead ELSE AfterElement(s, acc, ReadElement(s, i))

\* j is the index of the first character after '[' and whitespace
ReadArray(s, j) ==
  IF j <= Len(s) /\ s[j] = "]" THEN Read(<<>>, j + 1) ELSE ReadElements(s, j, <<>>)

\* the text of a run-length encoded value, one run per character
Runs(chars) == [i \in 1..Len(chars) |-> Run(chars[i], 1)]

\* card.term, card.definition of a parsed element: the last member of that name
RECURSIVE Member(_, _)
Member(members, key) ==
  IF members = <<>> THEN Undef
  ELSE IF members[Len(members)][1] = key THEN Str(Runs(members[Len(members)][2]))
  ELSE Member(SubSeq(members, 1, Len(members) - 1), key)

TermKey == <<"t", "e", "r", "m">>
DefinitionKey == <<"d", "e", "f", "i", "n", "i", "t", "i", "o", "n">>

ItemOf(x) ==
  IF x.object THEN Obj(Member(x.members, TermKey), Member(x.members, DefinitionKey))
  ELSE NullItem

\* the value read must be followed by nothing but whitespace
ArrayResult(s, a) ==
  IF a.ok /\ SkipWs(s, a.next) > Len(s)
  THEN ParseOk(Parsed(TRUE, [n \in 1..Len(a.val) |-> ItemOf(a.val[n])]))
  ELSE ParseFail({"JSON"})

ObjectResult(s, o) ==
  IF o.ok /\ SkipWs(s, o.next) > Len(s) THEN ParseOk(Parsed(FALSE, <<>>)) ELSE ParseFail({"JSON"})

ParseAt(s, i) ==
  IF i > Len(s) THEN ParseFail({"JSON"})
  ELSE IF s[i] = "[" THEN ArrayResult(s, ReadArray(s, SkipWs(s, i + 1)))
  ELSE IF s[i] = "{" THEN ObjectResult(s, ReadElement(s, i))
  ELSE ParseFail({"JSON"})

\* JSON.parse(jsonStr), for texts whose values are arrays of objects with
\* string members, strings and null
JsonParse(s) == ParseAt(s, SkipWs(s, 1))

\* one match of /"term"\s*:\s*"([^"]*?)"\s*,\s*"definition"\s*:\s*"([^"]*?)"/ at i
MatchPairAt(s, i) ==
  LET b == SkipWs(s, i + 6)
      c == SkipWs(s, b + 1)
      d == IndexOf(s, DQ, c + 1)
      e == SkipWs(s, d + 1)
      f == SkipWs(s, e + 1)
      g == SkipWs(s, f + 12)
      h == SkipWs(s, g + 1)
      k == IndexOf(s, DQ, h + 1)
  IN  IF /\ StartsWithAt(s, i, <<DQ>> \o TermKey \o <<DQ>>)
         /\ b <= Len(s) /\ s[b] = ":"
         /\ c <= Len(s) /\ s[c] = DQ
         /\ d > 0
         /\ e <= Len(s) /\ s[e] = ","
         /\ StartsWithAt(s, f, <<DQ>> \o DefinitionKey \o <<DQ>>)
         /\ g <= Len(s) /\ s[g] = ":"
         /\ h <= Len(s) /\ s[h] = DQ
         /\ k > 0
      THEN Read(<<Runs(SubSeq(s, c + 1, d - 1)), Runs(SubSeq(s, h + 1, k - 1))>>, k + 1)
      ELSE NoRead

\* jsonStr.match(/"term"...:"definition"...:"..."/g): the pairs of all matches
RECURSIVE TermDefMatchesFrom(_, _)
TermDefMatchesFrom(s, i) ==
  LET m == First({j \in i..Len(s) : MatchPairAt(s, j).ok})
      x == MatchPairAt(s, m)
  IN  IF m = 0 THEN <<>> ELSE <<x.val>> \o TermDefMatchesFrom(s, x.next)

termDefMatches(s) == TermDefMatchesFrom(s, 1)

\* what a handler makes of a raw text: the raw output the steps work with
RawFrom(clean, p) ==
  IF p.ok THEN JsonRaw(p.value) ELSE BrokenRaw(termDefMatches(clean), {})

RawOf(clean, text) ==
  IF TrimText(text) = <<>> THEN EmptyRaw ELSE RawFrom(clean, JsonParse(clean))

ExpressRawOf(text) == RawOf(ExpressClean(text), text)
WorkerRawOf(text) == RawOf(WorkerClean(text), text)

(***************************************************************************)
(* Raw texts a model can answer with                                       *)
(***************************************************************************)
\* longest array of the enumerated raw texts
MaxCards == 1

\* a string value: src is what stands between the quotes of the JSON text,
\* val the characters it denotes
Value(src, val) == [src |-> src, val |-> val]

VA == Value(<<"A">>, <<"A">>)
VB == Value(<<"B">>, <<"B">>)
\* x\ny, with the newline written as an escape
VNewline == Value(<<"x", BS, "n", "y">>, <<"x", NL, "y">>)
\* b,]
VCommaBracket == Value(<<"b", ",", "]">>, <<"b", ",", "]">>)
\* a, b:c
VColon == Value(<<"a", ",", " ", "b", ":", "c">>, <<"a", ",", " ", "b", ":", "c">>)
\* s: 'q'
VQuote == Value(<<"s", ":", " ", SQ, "q", SQ>>, <<"s", ":", " ", SQ, "q", SQ>>)

\* <<term, definition>>
TextCards ==
  {<<VA, VB>>, <<VB, VA>>, <<VA, VNewline>>, <<VA, VCommaBracket>>, <<VA, VColon>>, <<VA, VQuote>>}

TextArrays ==
  UNION {[1..n -> TextCards] : n \in 1..MaxCards}
  \cup {[i \in 1..MIN_COUNT + 1 |-> <<VA, VB>>]}

\* "strict": JSON.stringify with a space after ':' and ','; "compact": no
\* spaces; "trailing": a comma before ']'; "trailingMember": a comma before
\* '}'; "single": single quotes for keys and values; "bare": keys unquoted
Styles == {"strict", "compact", "trailing", "trailingMember", "single", "bare"}

Sep(style) == IF style = "compact" THEN <<>> ELSE <<" ">>

SerializeMember(key, v, style) ==
  LET q == IF style = "single" THEN <<SQ>> ELSE <<DQ>>
      kq == IF style = "bare" THEN <<>> ELSE q
  IN  kq \o key \o kq \o <<":">> \o Sep(style) \o q \o v.src \o q

SerializeCard(card, style) ==
  <<"{">> \o SerializeMember(TermKey, card[1], style) \o <<",">> \o Sep(style)
  \o SerializeMember(DefinitionKey, card[2], style)
  \o (IF style = "trailingMember" THEN <<",">> ELSE <<>>) \o <<"}">>

RECURSIVE SerializeCards(_, _)
SerializeCards(cards, style) ==
  IF cards = <<>> THEN <<>>
  ELSE SerializeCard(Head(cards), style)
       \o (IF Len(cards) > 1 THEN <<",">> \o Sep(style) ELSE <<>>)
       \o SerializeCards(Tail(cards), style)

Serialize(cards, style) ==
  <<"[">> \o SerializeCards(cards, style) \o (IF style = "trailing" THEN <<",">> ELSE <<>>) \o <<"]">>

Fences == {"fence", "fenceJson", "fenceInline"}
Proses == {"prose", "proseBracketBefore", "proseBracketAfter"}
Wraps == {"none", "padded"} \cup Fences \cup Proses

Wrap(t, wrap) ==
  CASE wrap = "none" -> t
    [] wrap = "padded" -> <<" ", NL>> \o t \o <<NL>>
    [] wrap = "fence" -> Fence \o <<NL>> \o t \o <<NL>> \o Fence
    [] wrap = "fenceJson" -> Fence \o <<"j", "s", "o", "n", NL>> \o t \o <<NL>> \o Fence
    [] wrap = "fenceInline" -> Fence \o <<"j", "s", "o", "n">> \o t \o Fence
    [] wrap = "prose" -> <<"H", "e", "r", "e", ":", " ">> \o t \o <<" ", "o", "k", ".">>
    [] wrap = "proseBracketBefore" -> <<"s", "e", "e", " ", "[", "1", "]", ":", " ">> \o t
    [] wrap = "proseBracketAfter" -> t \o <<" ", "[", "e", "n", "d", "]">>

\* a raw text together with the way it was written
Sample(cards, style, wrap) ==
  [text |-> Wrap(Serialize(cards, style), wrap), cards |-> cards, style |-> style, wrap |-> wrap]

Samples == {Sample(a, style, wrap) : a \in TextArrays, style \in Styles, wrap \in Wraps}

NoSample == [text |-> <<>>, cards |-> <<>>, style |-> "", wrap |-> ""]

\* the request the raw texts answer
TextBody == Body("object", Str(CtxOk), Name("en"), Num(2 * MIN_COUNT), Name("beginner"))

(***************************************************************************)
(* State                                                                   *)
(***************************************************************************)
VARIABLES
  impl,        \* the deployment that serves the requests: "express" or "worker"
  pc,          \* "idle", "call1" (first provider call awaited), "call2"
               \* (regeneration call awaited), "done" (response sent, the
               \* handler has not returned yet)
  body,        \* the body of the request being served
  req,         \* context, language, count, level as the handler uses them
  parsedData,  \* the handler's parsedData
  validCards,  \* the handler's validCards
  finalCards,  \* the handler's finalCards
  calls,       \* provider calls issued for this request
  out1,        \* what the first provider call produced
  out2,        \* what the regeneration call produced
  resp,        \* the response sent
  nresp,       \* number of responses sent for this request
  kv,          \* the worker's RATE_LIMIT_KV entry of the client
  hits,        \* the Express limiter's hit count of the client
  sample,      \* the raw text the model answers with, and how it was written
  clock,       \* seconds since the start
  kvExpires,   \* the time at which RATE_LIMIT_KV drops the entry
  kvCreated,   \* the time at which the entry was created
  successes,   \* successful generations since the entry was created
  inflight,    \* the concurrent requests of the client, each at its await
  shownCards,        \* App: number of cards of the state cards, 0 for null
  currentCardIndex,  \* App: the index it hands to FlashcardView on mount
  currentIndex,      \* FlashcardView: the index of the card on screen
  session,           \* localStorage entry flashcards_current_session
  savedSets,         \* the card counts of the sets saved from the view
  stack,             \* enhanced storage service: the frames of its methods
  thrown,            \* an exception is on its way up the stack
  metaStored,        \* localStorage holds flashcards_db_meta, version 1.0.0
  storedSets,        \* localStorage entry flashcards_saved_sets
  swCaches,          \* service worker: the requests held by its two caches
  answered,          \* service worker: the last fetch event and its answer
  statsEntry,        \* localStorage entry flashcards_stats
  answers            \* the values updateStats was called with, in order

textVars == <<sample>>

raceVars == <<clock, kvExpires, kvCreated, successes, inflight>>

viewVars == <<shownCards, currentCardIndex, currentIndex, session, savedSets>>

storeVars == <<stack, thrown, metaStored, storedSets>>

swVars == <<swCaches, answered>>

statsVars == <<statsEntry, answers>>

clientVars == <<viewVars, storeVars, swVars, statsVars>>

vars == <<impl, pc, body, req, parsedData, validCards, finalCards, calls, out1, out2,
          resp, nresp, kv, hits, textVars, raceVars, clientVars>>

\* what JSON.stringify wrote to flashcards_current_session
Session(n, i) == [present |-> TRUE, savedCards |-> n, cardIndex |-> i]
NoSession == [present |-> FALSE, savedCards |-> 0, cardIndex |-> 0]

\* the browser side before the page is first opened
ClientInit ==
  /\ shownCards = 0
  /\ currentCardIndex = 0
  /\ currentIndex = 0
  /\ session = NoSession
  /\ savedSets = {}
  /\ stack = <<>>
  /\ thrown = FALSE
  /\ metaStored = FALSE
  /\ storedSets = <<>>
  /\ swCaches = [static |-> {}, dynamic |-> {}]
  /\ answered = [intercepted |-> FALSE, by |-> "", request |-> <<>>]
  /\ statsEntry = [present |-> FALSE, totalCardsStudied |-> 0, totalCorrectAnswers |-> 0,
                   currentStreak |-> 0]
  /\ answers = <<>>

NoBody == Body("none", Undef, NoName, NoNum, NoName)

Init ==
  /\ impl \in {"express", "worker"}
  /\ pc = "idle"
  /\ body = NoBody
  /\ req = NoReq
  /\ parsedData = <<>>
  /\ validCards = <<>>
  /\ finalCards = <<>>
  /\ calls = 0
  /\ out1 = NoOutcome
  /\ out2 = NoOutcome
  /\ resp = NoResp
  /\ nresp = 0
  /\ kv = NoEntry
  /\ hits = 0
  /\ sample = NoSample
  /\ clock = 0
  /\ kvExpires = 0
  /\ kvCreated = 0
  /\ successes = 0
  /\ inflight = <<>>
  /\ ClientInit

\* a response ends the request
Respond(r) ==
  /\ resp' = r
  /\ nresp' = nresp + 1
  /\ pc' = "done"

\* a request arrives; the handler's locals are still unset
Fresh(b) ==
  /\ body' = b
  /\ UNCHANGED <<parsedData, validCards, finalCards, out1, out2>>

\* server.js: express.json, createFlashcardsLimiter, validateInput and the
\* route up to the first await
ExpressRequest(b) ==
  /\ impl = "express"
  /\ pc = "idle"
  /\ hits <= LIMITER_MAX
  /\ Fresh(b)
  /\ IF b.kind # "object"
     THEN \* body-parser rejects the body; the error middleware answers
          /\ resp' = ErrorResponse(500, "Internal server error")
          /\ nresp' = 1 /\ pc' = "done" /\ calls' = 0 /\ req' = NoReq
          /\ UNCHANGED hits
     ELSE /\ hits' = hits + 1
          /\ IF hits + 1 > LIMITER_MAX
             THEN /\ resp' = ErrorResponse(429, "Too many flashcard generation requests, please try again later.")
                  /\ nresp' = 1 /\ pc' = "done" /\ calls' = 0 /\ req' = NoReq
             ELSE IF ValidationError(b) # ""
             THEN /\ resp' = ErrorResponse(400, ValidationError(b))
                  /\ nresp' = 1 /\ pc' = "done" /\ calls' = 0 /\ req' = NoReq
             ELSE /\ req' = Destructure(b)
                  /\ resp' = NoResp /\ nresp' = 0
                  /\ calls' = 1
                  /\ pc' = "call1"
  /\ UNCHANGED <<impl, kv>>
  /\ UNCHANGED <<textVars, raceVars, clientVars>>

\* server.js: the route from the first reply on
ExpressFirstReply(o, quoted) ==
  /\ impl = "express"
  /\ pc = "call1"
  /\ out1' = o
  /\ LET s == ExpressFirst(req, o, quoted)
     IN  /\ parsedData' = s.parsedData
         /\ validCards' = s.validCards
         /\ finalCards' = s.finalCards
         /\ IF s.next = "regen"
            THEN /\ calls' = calls + 1
                 /\ pc' = "call2"
                 /\ UNCHANGED <<resp, nresp>>
            ELSE /\ Respond(s.resp)
                 /\ UNCHANGED calls
  /\ UNCHANGED <<impl, body, req, out2, kv, hits>>
  /\ UNCHANGED <<textVars, raceVars, clientVars>>

\* server.js: the route from the regeneration reply on
ExpressRegenReply(o) ==
  /\ impl = "express"
  /\ pc = "call2"
  /\ out2' = o
  /\ parsedData' = ExpressRegen(parsedData, o)
  /\ finalCards' = Slice(validCards, req.count2)
  /\ Respond(Success(sanitizedCardsOf(Slice(validCards, req.count2))))
  /\ UNCHANGED <<impl, body, req, validCards, calls, out1, kv, hits>>
  /\ UNCHANGED <<textVars, raceVars, clientVars>>

\* worker.js: request.json, the input validation, the rate limit check and
\* the handler up to the first provider call
WorkerRequest(b) ==
  /\ impl = "worker"
  /\ pc = "idle"
  /\ Fresh(b)
  /\ IF b.kind = "malformed"
     THEN /\ resp' = WorkerCatch({"JSON"})
          /\ nresp' = 1 /\ pc' = "done" /\ calls' = 0 /\ req' = NoReq
     ELSE IF b.kind = "null"
     THEN /\ resp' = WorkerCatch({})
          /\ nresp' = 1 /\ pc' = "done" /\ calls' = 0 /\ req' = NoReq
     ELSE IF ValidationError(b) # ""
     THEN /\ resp' = ErrorResponse(400, ValidationError(b))
          /\ nresp' = 1 /\ pc' = "done" /\ calls' = 0 /\ req' = NoReq
     ELSE IF RateLimited(kv)
     THEN /\ resp' = ErrorResponse(429, "Too many requests. Please try again later.")
          /\ nresp' = 1 /\ pc' = "done" /\ calls' = 0 /\ req' = NoReq
     ELSE /\ req' = Destructure(b)
          /\ resp' = NoResp /\ nresp' = 0
          /\ calls' = 1
          /\ pc' = "call1"
  /\ UNCHANGED <<impl, kv, hits>>
  /\ UNCHANGED <<textVars, raceVars, clientVars>>

\* worker.js: the handler from the first reply on
WorkerFirstReply(o) ==
  /\ impl = "worker"
  /\ pc = "call1"
  /\ out1' = o
  /\ LET s == WorkerFirst(req, o)
     IN  /\ parsedData' = s.parsedData
         /\ validCards' = s.validCards
         /\ finalCards' = s.finalCards
         /\ IF s.next = "regen"
            THEN /\ calls' = calls + 1
                 /\ pc' = "call2"
                 /\ UNCHANGED <<resp, nresp, kv>>
            ELSE /\ Respond(s.resp)
                 /\ kv' = IF s.resp.status = 200 THEN KvIncrement(kv) ELSE kv
                 /\ UNCHANGED calls
  /\ UNCHANGED <<impl, body, req, out2, hits>>
  /\ UNCHANGED <<textVars, raceVars, clientVars>>

\* worker.js: the handler from the regeneration reply on
WorkerRegenReply(o) ==
  /\ impl = "worker"
  /\ pc = "call2"
  /\ out2' = o
  /\ finalCards' = WorkerRegen(finalCards, o, req.count2)
  /\ Respond(Success(sanitizedCardsOf(finalCards')))
  /\ kv' = KvIncrement(kv)
  /\ UNCHANGED <<impl, body, req, parsedData, validCards, calls, out1, hits>>
  /\ UNCHANGED <<textVars, raceVars, clientVars>>

\* the handler returns and its locals go out of scope
HandlerReturns ==
  /\ pc = "done"
  /\ pc' = "idle"
  /\ body' = NoBody
  /\ req' = NoReq
  /\ parsedData' = <<>>
  /\ validCards' = <<>>
  /\ finalCards' = <<>>
  /\ calls' = 0
  /\ out1' = NoOutcome
  /\ out2' = NoOutcome
  /\ resp' = NoResp
  /\ nresp' = 0
  /\ UNCHANGED <<impl, kv, hits>>
  /\ UNCHANGED <<textVars, raceVars, clientVars>>

\* the 15 minute window of the client's counter ends: the KV entry expires,
\* the limiter's window is reset
WindowExpires ==
  /\ pc = "idle"
  /\ kv.present \/ hits > 0
  /\ kv' = NoEntry
  /\ hits' = 0
  /\ UNCHANGED <<impl, pc, body, req, parsedData, validCards, finalCards, calls, out1, out2,
                 resp, nresp>>
  /\ UNCHANGED <<textVars, raceVars, clientVars>>

Next ==
  \/ \E b \in Bodies : ExpressRequest(b)
  \/ \E o \in ExpressOutcomes : \E quoted \in {{}, o.raw.words} : ExpressFirstReply(o, quoted)
  \/ \E o \in ExpressOutcomes : ExpressRegenReply(o)
  \/ \E b \in Bodies : WorkerRequest(b)
  \/ \E o \in WorkerOutcomes : WorkerFirstReply(o)
  \/ \E o \in WorkerOutcomes : WorkerRegenReply(o)
  \/ HandlerReturns
  \/ WindowExpires

Spec == Init /\ [][Next]_vars

TypeOK ==
  /\ impl \in {"express", "worker"}
  /\ pc \in {"idle", "call1", "call2", "done"}
  /\ calls \in 0..3
  /\ nresp \in 0..2
  /\ hits \in 0..(LIMITER_MAX + 1)

(***************************************************************************)
(* One request answered with an enumerated raw text                        *)
(***************************************************************************)
TextInit ==
  /\ impl \in {"express", "worker"}
  /\ pc = "idle"
  /\ body = NoBody
  /\ req = NoReq
  /\ parsedData = <<>>
  /\ validCards = <<>>
  /\ finalCards = <<>>
  /\ calls = 0
  /\ out1 = NoOutcome
  /\ out2 = NoOutcome
  /\ resp = NoResp
  /\ nresp = 0
  /\ kv = NoEntry
  /\ hits = 0
  /\ sample \in Samples
  /\ clock = 0
  /\ kvExpires = 0
  /\ kvCreated = 0
  /\ successes = 0
  /\ inflight = <<>>
  /\ ClientInit

ExpressTextRequest == ExpressRequest(TextBody)

\* response.text() is the sample's text
ExpressTextReply == ExpressFirstReply(Text(ExpressRawOf(sample.text)), {})

WorkerTextRequest == WorkerRequest(TextBody)

\* aiData.candidates[0].content.parts[0].text is the sample's text
WorkerTextReply == WorkerFirstReply(Text(WorkerRawOf(sample.text)))

TextNext ==
  \/ ExpressTextRequest
  \/ ExpressTextReply
  \/ WorkerTextRequest
  \/ WorkerTextReply

TextSpec == TextInit /\ [][TextNext]_vars

(***************************************************************************)
(* Concurrent requests of one client to the worker, and the passing of     *)
(* time                                                                    *)
(*                                                                         *)
(* The handler gives up control at each await: RATE_LIMIT_KV.get before    *)
(* the generation, the provider call, RATE_LIMIT_KV.get and                *)
(* RATE_LIMIT_KV.put after it.  Requests carry valid bodies.               *)
(***************************************************************************)
\* number of requests of the client
MaxRequests == 2

\* how often the clock advances
MaxTicks == 4

\* the largest set of cards the service returns to the client
MaxDeck == 4

\* the number of frames the engine's call stack holds
MaxStack == 8

\* the most sets the saved-sets entry holds, and the most an import file holds
MaxSets == 2

\* the most answers given in one behaviour
MaxAnswers == 6

\* { expirationTtl: 900 }, in seconds
EXPIRATION_TTL == 900

\* the clock advances by a third of the time to live
TickSeconds == EXPIRATION_TTL \div 3

\* at: "none" (not yet sent), "call" (provider call awaited), "get" (the
\* second RATE_LIMIT_KV.get awaited), "put" (RATE_LIMIT_KV.put awaited),
\* "done" (response sent); read: parseInt(currentCount) of the second get
Request(at, read, status) == [at |-> at, read |-> read, status |-> status]

\* an entry that holds String(n)
Entry(n) == [present |-> TRUE, value |-> n]

RaceInit ==
  /\ impl = "worker"
  /\ pc = "idle"
  /\ body = NoBody
  /\ req = NoReq
  /\ parsedData = <<>>
  /\ validCards = <<>>
  /\ finalCards = <<>>
  /\ calls = 0
  /\ out1 = NoOutcome
  /\ out2 = NoOutcome
  /\ resp = NoResp
  /\ nresp = 0
  /\ hits = 0
  /\ sample = NoSample
  /\ clock = 0
  /\ kv \in {NoEntry, Entry(KV_LIMIT - 1)}
  /\ kvExpires = IF kv.present THEN EXPIRATION_TTL ELSE 0
  /\ kvCreated = 0
  /\ successes = IF kv.present THEN kv.value ELSE 0
  /\ inflight = [i \in 1..MaxRequests |-> Request("none", 0, 0)]
  /\ ClientInit

Unserved == <<impl, pc, body, req, parsedData, validCards, finalCards, calls, out1, out2,
              resp, nresp, hits, sample, clientVars>>

\* worker.js 88-99: the request arrives and the counter is read
RaceCheck(i) ==
  /\ inflight[i].at = "none"
  /\ inflight' = [inflight EXCEPT ![i] =
                    IF RateLimited(kv)
                    THEN Request("done", 0, 429) ELSE Request("call", 0, 0)]
  /\ UNCHANGED <<kv, clock, kvExpires, kvCreated, successes, Unserved>>

\* worker.js 158-346: the provider answers; ok says whether cards come of it
RaceProviderReplies(i, ok) ==
  /\ inflight[i].at = "call"
  /\ inflight' = [inflight EXCEPT ![i] =
                    IF ok THEN Request("get", 0, 0) ELSE Request("done", 0, 503)]
  /\ UNCHANGED <<kv, clock, kvExpires, kvCreated, successes, Unserved>>

\* worker.js 350: currentCount = await RATE_LIMIT_KV.get(rateLimitKey) || '0'
RaceKvGet(i) ==
  /\ inflight[i].at = "get"
  /\ inflight' = [inflight EXCEPT ![i] = Request("put", IF kv.present THEN kv.value ELSE 0, 0)]
  /\ UNCHANGED <<kv, clock, kvExpires, kvCreated, successes, Unserved>>

\* worker.js 351-356: put(rateLimitKey, String(parseInt(currentCount) + 1),
\* { expirationTtl: 900 }) and the 200 response
RaceKvPut(i) ==
  /\ inflight[i].at = "put"
  /\ kv' = Entry(inflight[i].read + 1)
  /\ kvExpires' = clock + EXPIRATION_TTL
  /\ kvCreated' = IF kv.present THEN kvCreated ELSE clock
  /\ successes' = IF kv.present THEN successes + 1 ELSE 1
  /\ inflight' = [inflight EXCEPT ![i] = Request("done", inflight[i].read, 200)]
  /\ UNCHANGED <<clock, Unserved>>

\* time passes; an entry whose time to live has run out is dropped
RaceTick ==
  /\ clock < MaxTicks * TickSeconds
  /\ clock' = clock + TickSeconds
  /\ IF kv.present /\ clock' >= kvExpires
     THEN kv' = NoEntry /\ successes' = 0
     ELSE UNCHANGED <<kv, successes>>
  /\ UNCHANGED <<kvExpires, kvCreated, inflight, Unserved>>

RaceNext ==
  \/ \E i \in 1..MaxRequests : RaceCheck(i)
  \/ \E i \in 1..MaxRequests : \E ok \in BOOLEAN : RaceProviderReplies(i, ok)
  \/ \E i \in 1..MaxRequests : RaceKvGet(i)
  \/ \E i \in 1..MaxRequests : RaceKvPut(i)
  \/ RaceTick

RaceSpec == RaceInit /\ [][RaceNext]_vars

(***************************************************************************)
(* Properties                                                              *)
(***************************************************************************)
\* the items the first reply parsed to, and those of the regeneration reply
FirstItems ==
  IF impl = "express" THEN ExpressParse(out1.raw, {}).value.items ELSE WorkerParse(out1.raw).value.items

RegenItems == IF out2.raw.kind = "json" THEN out2.raw.value.items ELSE <<>>

\* the first floor(count) valid items of an array, in order, as delivered
FirstN(items, count2) ==
  LET v == SelectSeq(items, IsValidCard)
  IN  SubSeq(v, 1, Min(Len(v), count2 \div 2))

Delivered(items, count2) ==
  LET f == FirstN(items, count2) IN [i \in 1..Len(f) |-> SanitizeCard(f[i])]

PassesPolicy(cards) == \A i \in 1..Len(cards) : IsExpertCard(cards[i])

\* the regeneration output is a JSON array with at least one valid item
RegenUsable ==
  /\ out2.t = "text" /\ out2.raw.kind = "json" /\ out2.raw.value.isArray
  /\ Len(SelectSeq(RegenItems, IsValidCard)) > 0

UnavailableResponse == ErrorResponse(503, "AI service temporarily unavailable. Please try again later.")
InvalidResponse == ErrorResponse(500, "The AI generated an invalid response.")
UnableResponse == ErrorResponse(400, "Unable to generate valid flashcards from this content.")

\* C1: a request makes at most two provider calls; it makes the second one
\* exactly when the level is expert and the validated set of the first
\* response (its first itemCount valid items) fails the policy, and otherwise
\* delivers the first attempt's set after one call.
C1_CallsFollowPolicy ==
  /\ calls <= 2
  /\ (pc = "call2" \/ (pc = "done" /\ resp.status = 200)) =>
       /\ calls = 2 <=> (req.level = "expert" /\ ~PassesPolicy(FirstN(FirstItems, req.count2)))
       /\ (pc = "done" /\ calls = 1) => resp.flashcards = Delivered(FirstItems, req.count2)

\* C2: when the regeneration output has at least one valid item, the
\* delivered flashcards are those of the regenerated output.
C2_RegenReplacesFirst ==
  (pc = "done" /\ calls = 2 /\ RegenUsable) => resp = Success(Delivered(RegenItems, req.count2))

\* C3: when the regeneration attempt fails in any way, the request still
\* answers 200 with the first attempt's set.
C3_RegenFailureFallsBack ==
  (pc = "done" /\ calls = 2 /\ ~RegenUsable) => resp = Success(Delivered(FirstItems, req.count2))

C3_Witness ==
  /\ pc = "done" /\ calls = 2 /\ impl = "worker"
  /\ out2.t = "text" /\ out2.raw.kind = "broken"
  /\ resp.status = 200 /\ Len(resp.flashcards) > 0

\* C4: every request ends with exactly one response, which is either 200
\* with a non-empty flashcards array or an error body with status 400, 429,
\* 500 or 503; nothing is sent before the handler is done.
C4_OneWellFormedResponse ==
  /\ pc # "done" => (nresp = 0 /\ resp = NoResp)
  /\ pc = "done" =>
       /\ nresp = 1
       /\ \/ resp.status = 200 /\ resp.error = "" /\ Len(resp.flashcards) > 0
          \/ resp.status \in {400, 429, 500, 503} /\ resp.error # "" /\ resp.flashcards = <<>>

C4_Witness == pc = "done" /\ out1.t = "throw" /\ out1.msg = {} /\ nresp = 1 /\ resp.status = 500

\* C5: a raw text that cannot be turned into an array is answered with 500
\* and the invalid-response message, whatever words the text contains.
C5_MalformedIs500 ==
  (pc = "done" /\ out1.t = "text" /\ out1.raw.kind = "broken" /\ Len(out1.raw.pairs) = 0)
    => resp = InvalidResponse

\* C6: a first provider call that throws or returns a non-success status is
\* answered with 503 and the try-again-later message.
C6_ProviderFailureIs503 ==
  (pc = "done" /\ out1.t \in {"throw", "notok"}) => resp = UnavailableResponse

\* C7: a parsed array without any valid item is answered with 400 and the
\* unable-to-generate message, after a single provider call.
C7_NoValidItemsIs400 ==
  (/\ pc = "done" /\ out1.t = "text"
   /\ out1.raw.kind = "json" \/ (impl = "express" /\ Len(out1.raw.pairs) > 0)
   /\ out1.raw.kind = "json" => out1.raw.value.isArray
   /\ Len(SelectSeq(FirstItems, IsValidCard)) = 0)
    => (resp = UnableResponse /\ calls = 1)

C7_Witness ==
  /\ pc = "done" /\ out1.t = "text" /\ out1.raw.kind = "json" /\ out1.raw.value.isArray
  /\ out1.raw.value.items = <<NoDefItem, NoDefItem>>
  /\ resp.status = 400

\* the bodies the boundary validation is to refuse
OutOfRange(b) ==
  \/ b.kind # "object"
  \/ b.context.t # "str"
  \/ Length(b.context.s) < MIN_CONTEXT
  \/ Length(b.context.s) > MAX_CONTEXT
  \/ b.language.t # "str" \/ b.language.v \notin supportedLanguages
  \/ b.count.t # "num" \/ b.count.v2 % 2 # 0
  \/ b.count.v2 < 2 * MIN_COUNT \/ b.count.v2 > 2 * MAX_COUNT
  \/ b.level.t # "str" \/ b.level.v \notin supportedLevels

\* C8: a request that fails boundary validation is answered with 400, makes
\* no provider call and leaves the rate-limit counter as it was.
C8_InvalidRequestIs400 ==
  [][(pc = "idle" /\ pc' # "idle" /\ OutOfRange(body'))
       => (pc' = "done" /\ resp'.status = 400 /\ calls' = 0 /\ kv' = kv /\ hits' = hits)]_vars

\* C9: whenever the provider is called, the forwarded context has between 3
\* and 50,000 characters, the language and level are supported and the
\* count is an integer in [5,20].
C9_CallsAreInRange ==
  pc \in {"call1", "call2"} =>
    /\ Length(req.context) >= MIN_CONTEXT
    /\ Length(req.context) <= MAX_CONTEXT
    /\ req.language \in supportedLanguages
    /\ req.count2 % 2 = 0 /\ req.count2 >= 2 * MIN_COUNT /\ req.count2 <= 2 * MAX_COUNT
    /\ req.level \in supportedLevels

\* C10: in every success response the flashcards are the first min(v,
\* itemCount) valid items, in order, of the parsed array they were taken
\* from (the first one, or the regenerated one), so between 1 and itemCount
\* cards are delivered.
C10_FirstNInOrder ==
  (pc = "done" /\ resp.status = 200) =>
    /\ \/ resp.flashcards = Delivered(FirstItems, req.count2)
       \/ calls = 2 /\ RegenUsable /\ resp.flashcards = Delivered(RegenItems, req.count2)
    /\ Len(resp.flashcards) >= 1
    /\ 2 * Len(resp.flashcards) <= req.count2

C10_Witness ==
  /\ pc = "done" /\ resp.status = 200
  /\ Len(SelectSeq(FirstItems, IsValidCard)) > req.count2 \div 2
  /\ 2 * Len(resp.flashcards) = req.count2
  /\ FirstItems[Len(FirstItems)] # FirstItems[1]

\* number of angle bracket characters of a text
RECURSIVE AngleCount(_)
AngleCount(t) ==
  IF t = <<>> THEN 0
  ELSE (IF Head(t).c \in {"<", ">"} THEN RunLen(Head(t)) ELSE 0) + AngleCount(Tail(t))

\* C11: every delivered flashcard has a term and a definition that are
\* non-empty after trimming.
C11_DeliveredNonEmpty ==
  (pc = "done" /\ resp.status = 200) =>
    \A i \in 1..Len(resp.flashcards) :
      /\ Length(Trim(resp.flashcards[i].term)) > 0
      /\ Length(Trim(resp.flashcards[i].definition)) > 0

\* what the hard cut at k, made on the trimmed text before the brackets are
\* stripped, leaves of a field: its length, and the field itself when the
\* trimmed text has no angle bracket
CutBeforeStrip(src, out, k) ==
  LET trimmed == Trim(src)
      kept == Substring(trimmed, k)
  IN  /\ Length(out) = Min(k, Length(trimmed)) - AngleCount(kept)
      /\ AngleCount(trimmed) = 0 => out = kept

\* C12: a delivered term has at most 500 characters, a delivered definition
\* at most 2000, neither contains an angle bracket, and each is the hard cut
\* of the trimmed text made before the brackets are stripped, nothing added.
C12_DeliveredWithinLimits ==
  (pc = "done" /\ resp.status = 200) =>
    /\ Len(resp.flashcards) = Len(finalCards)
    /\ \A i \in 1..Len(resp.flashcards) :
         /\ Length(resp.flashcards[i].term) <= TERM_LIMIT
         /\ Length(resp.flashcards[i].definition) <= DEF_LIMIT
         /\ AngleCount(resp.flashcards[i].term) = 0
         /\ AngleCount(resp.flashcards[i].definition) = 0
         /\ CutBeforeStrip(finalCards[i].term.s, resp.flashcards[i].term, TERM_LIMIT)
         /\ CutBeforeStrip(finalCards[i].definition.s, resp.flashcards[i].definition, DEF_LIMIT)

C12_Witness ==
  /\ pc = "done" /\ resp.status = 200
  /\ finalCards = <<LongCard>>
  /\ resp.flashcards[1].term = X(TERM_LIMIT)
  /\ Length(resp.flashcards[1].definition) = DEF_LIMIT

\* C18: in the worker, a successful generation increases the client's
\* counter by exactly one and a request that ends in an error leaves it as
\* it was.
C18_CounterFollowsSuccess ==
  [][(impl = "worker" /\ pc # "done" /\ pc' = "done") =>
       /\ resp'.status = 200 =>
            (kv'.present /\ kv'.value = (IF kv.present THEN kv.value ELSE 0) + 1)
       /\ resp'.status # 200 => kv' = kv]_vars

C18_Witness ==
  /\ impl = "worker" /\ pc = "done" /\ resp.status = 200
  /\ kv.present /\ kv.value = 3

\* the cards a sample's text spells out, as the client should receive them
SampleCards ==
  LET n == Min(Len(sample.cards), req.count2 \div 2)
  IN  [i \in 1..n |-> [term |-> Runs(sample.cards[i][1].val),
                       definition |-> Runs(sample.cards[i][2].val)]]

IsValidJson(style) == style \in {"strict", "compact"}

\* C13: a raw text that is a valid JSON array of well-formed items is answered
\* with exactly those items, cut to the requested count: no repair touches
\* the text inside its strings.
C13_ValidJsonPassesThrough ==
  (pc = "done" /\ IsValidJson(sample.style) /\ sample.wrap = "none")
    => resp = Success(SampleCards)

\* the response the handler gives to the sample's array without its wrapping
UnwrappedResponse ==
  LET bare == Serialize(sample.cards, sample.style)
  IN  IF impl = "express" THEN ExpressFirst(req, Text(ExpressRawOf(bare)), {}).resp
      ELSE WorkerFirst(req, Text(WorkerRawOf(bare))).resp

\* C14: a valid JSON array inside a Markdown fence, with or without a
\* language tag, is answered exactly as the array alone is.
C14_FenceIsTransparent ==
  (pc = "done" /\ IsValidJson(sample.style) /\ sample.wrap \in Fences)
    => resp = UnwrappedResponse

C14_Witness ==
  /\ pc = "done" /\ sample.style = "strict" /\ sample.wrap = "fenceInline"
  /\ sample.cards = <<<<VA, VB>>>>
  /\ resp = Success(SampleCards)

\* C15: prose, then a valid JSON array of well-formed items, then prose: the
\* slice from the first '[' to the last ']' is the array and the response
\* holds exactly its items.
C15_ProseIsSlicedAway ==
  (pc = "done" /\ IsValidJson(sample.style) /\ sample.wrap \in Proses)
    => resp = Success(SampleCards)

\* C16: an array that is valid JSON except for a comma before ']' or '}' is
\* repaired and answered with exactly its items.
C16_TrailingCommaRepaired ==
  (pc = "done" /\ sample.style \in {"trailing", "trailingMember"} /\ sample.wrap = "none")
    => resp = Success(SampleCards)

\* C17: [{'term': 'A', 'definition': 'B'}] is repaired and answered with the
\* one card A / B.
C17_SingleQuotesRepaired ==
  (pc = "done" /\ sample.style = "single" /\ sample.wrap = "none" /\ sample.cards = <<<<VA, VB>>>>)
    => resp = Success(SampleCards)

\* C19: whatever the interleaving of the client's concurrent requests, the
\* stored counter never exceeds the number of the client's successful
\* generations in the window: an increment may be lost, none is added.
C19_CounterNeverExceedsSuccesses == kv.present => kv.value <= successes

\* C20: the counter lives for one fixed window: an entry created at time t
\* is gone at t + 15 minutes, whatever successes fall in between.
C20_EntryGoneAfterWindow == kv.present => clock < kvCreated + EXPIRATION_TTL

\* C21: when JSON.parse of the cleaned text fails and the text holds at least
\* one adjacent "term": "...", "definition": "..." pair, the handler goes on
\* with the items rebuilt from the matches and does not answer with the
\* invalid-response error, in the Express route and in the worker alike.
C21_FallbackRebuildsItems ==
  (pc = "done" /\ out1.t = "text" /\ out1.raw.kind = "broken" /\ Len(out1.raw.pairs) > 0)
    => (parsedData = FallbackItems(out1.raw) /\ resp # InvalidResponse)

\* what the first-response pipeline of the serving handler makes of a raw
\* output: parse (with the pattern fallback where the handler has one)
AsFirstResponse(raw) == IF impl = "express" THEN ExpressParse(raw, {}) ELSE WorkerParse(raw)

\* the raw output would be accepted as a first response
AcceptedAsFirst(raw) ==
  /\ raw.kind # "empty" \/ impl = "express"
  /\ AsFirstResponse(raw).ok
  /\ AsFirstResponse(raw).value.isArray
  /\ Len(validCardsOf(AsFirstResponse(raw).value.items)) > 0

\* C22: the regeneration output goes through the same normalize, parse (with
\* the pattern fallback) and validate steps as the first output: it is taken
\* with item set S exactly when it would be accepted as a first response
\* with item set S, and otherwise the first attempt's set stays.
C22_RegenSamePipeline ==
  (pc = "done" /\ calls = 2 /\ out2.t = "text")
    => finalCards = IF AcceptedAsFirst(out2.raw)
                    THEN FirstN(AsFirstResponse(out2.raw).value.items, req.count2)
                    ELSE FirstN(FirstItems, req.count2)

\* C23: the difficulty policy is checked on the set that would be delivered,
\* the first itemCount valid items of the first response: for level expert a
\* regeneration call is made exactly when that set fails the policy, so a
\* valid item beyond the first itemCount never decides it.
C23_PolicyOnDeliveredSet ==
  (req.level = "expert" /\ (pc = "call2" \/ (pc = "done" /\ resp.status = 200)))
    => ((calls = 2) <=> ~hasExpertContent(FirstN(FirstItems, req.count2)))

\* the members of a vocabulary list that occur in the text term + ' ' + definition
VocabularyHits(card, list) ==
  {w \in list : \E i \in 1..Len(card.term.s) + Len(card.definition.s) :
     WordIncludes(ToLowerCase(card.term.s \o card.definition.s)[i].c, w)}

PassesExpert(card) ==
  /\ VocabularyHits(card, bannedSimpleTerms) = {}
  /\ Cardinality(VocabularyHits(card, expertKeywords)) >= 2
  /\ Length(card.definition.s) > 150

\* the set a handler hands to the policy check
PolicySet == IF impl = "express" THEN validCards ELSE Slice(validCards, req.count2)

\* C24: for level expert an item passes exactly when its combined text holds
\* no banned simple word, at least 2 distinct expert keywords and its
\* definition is longer than 150 characters; the set passes, and no
\* regeneration call is made, exactly when every item of it passes.
C24_ExpertPolicy ==
  (req.level = "expert" /\ (pc = "call2" \/ (pc = "done" /\ resp.status = 200)))
    => ((calls = 1) <=> \A i \in 1..Len(PolicySet) : PassesExpert(PolicySet[i]))

C24_Witness ==
  /\ pc = "done" /\ resp.status = 200 /\ req.level = "expert" /\ calls = 2
  /\ PolicySet = <<EdgeLengthCard>>

(***************************************************************************)
(* The flashcard view of the web client: App.tsx and FlashcardView.tsx.    *)
(* A set of cards is kept as its number of cards.  An action is one event  *)
(* handler together with the renders and effects it causes.                *)
(***************************************************************************)
serverVars == <<impl, pc, body, req, parsedData, validCards, finalCards, calls, out1, out2,
                resp, nresp, kv, hits, textVars, raceVars>>

\* the sizes of the sets the service returns
Decks == 1..MaxDeck

\* handleCreateContent in flashcard mode, from the creation view: the view
\* mounts with useState(initialCardIndex), then the session is written
HandleCreateContent(n) ==
  /\ shownCards = 0
  /\ shownCards' = n
  /\ currentIndex' = currentCardIndex
  /\ session' = Session(n, currentCardIndex)
  /\ UNCHANGED <<currentCardIndex, savedSets, serverVars, storeVars, swVars, statsVars>>

\* goToNext, the index effect and the session effect
GoToNext ==
  /\ shownCards > 0
  /\ currentIndex' = (currentIndex + 1) % shownCards
  /\ currentCardIndex' = currentIndex'
  /\ session' = Session(shownCards, currentIndex')
  /\ UNCHANGED <<shownCards, savedSets, serverVars, storeVars, swVars, statsVars>>

\* goToPrev, the index effect and the session effect
GoToPrev ==
  /\ shownCards > 0
  /\ currentIndex' = (currentIndex - 1 + shownCards) % shownCards
  /\ currentCardIndex' = currentIndex'
  /\ session' = Session(shownCards, currentIndex')
  /\ UNCHANGED <<shownCards, savedSets, serverVars, storeVars, swVars, statsVars>>

\* handleSave with a name
HandleSave ==
  /\ shownCards > 0
  /\ savedSets' = savedSets \cup {shownCards}
  /\ UNCHANGED <<shownCards, currentCardIndex, currentIndex, session, serverVars, storeVars, swVars, statsVars>>

\* handleLoadSavedSet: a view that is on screen stays mounted and keeps its
\* state, a new one mounts with initialCardIndex 0
HandleLoadSavedSet(n) ==
  /\ n \in savedSets
  /\ shownCards' = n
  /\ currentCardIndex' = 0
  /\ currentIndex' = IF shownCards > 0 THEN currentIndex ELSE 0
  /\ session' = Session(n, 0)
  /\ UNCHANGED <<savedSets, serverVars, storeVars, swVars, statsVars>>

\* handleCreateNew, the back button of the view
HandleCreateNew ==
  /\ shownCards > 0
  /\ shownCards' = 0
  /\ currentCardIndex' = 0
  /\ currentIndex' = 0
  /\ session' = NoSession
  /\ UNCHANGED <<savedSets, serverVars, storeVars, swVars, statsVars>>

\* the page is opened again: the mount effect of App restores the session
RestoreSession ==
  /\ shownCards' = session.savedCards
  /\ currentCardIndex' = session.cardIndex
  /\ currentIndex' = session.cardIndex
  /\ UNCHANGED <<session, savedSets, serverVars, storeVars, swVars, statsVars>>

ViewNext ==
  \/ \E n \in Decks : HandleCreateContent(n)
  \/ GoToNext
  \/ GoToPrev
  \/ HandleSave
  \/ \E n \in Decks : HandleLoadSavedSet(n)
  \/ HandleCreateNew
  \/ RestoreSession

\* the browser side starts from its initial state, whichever deployment serves it
BrowserInit == Init /\ impl = "express"

ViewSpec == BrowserInit /\ [][ViewNext]_vars

\* C25: the index of the card on screen is within [0, cards.length) after any
\* navigation, session restore and load of a saved set, also of a set with
\* fewer cards than the index shown.
C25_IndexInRange == shownCards > 0 => currentIndex \in 0..(shownCards - 1)

(***************************************************************************)
(* The enhanced storage service.  A saved set is kept as its id and name.  *)
(* A frame is a method on the call stack, its argument and the place it    *)
(* continues at; a call that finds the stack full raises a RangeError at   *)
(* the call site.                                                          *)
(***************************************************************************)
appVars == <<serverVars, viewVars, swVars, statsVars>>

SetNames == {"a", "A", "b"}

\* String.prototype.toLowerCase on a set name
LowerName(n) == IF n = "A" THEN "a" ELSE n

SavedSet(id, name) == [id |-> id, name |-> name]

\* validateFlashcardSet, of which only the name check can fail here
IsValidSet(set) == set.name # ""

\* what the guarded read of getSavedFlashcardSets returns
ValidSets == SelectSeq(storedSets, IsValidSet)

IdsOf(sets) == {sets[i].id : i \in 1..Len(sets)}

\* Date.now().toString(36) + Math.random()...: an id no set in used has
FreshId(used) == CHOOSE i \in 1..(2 * MaxSets + 1) : i \notin used /\ \A j \in 1..(i - 1) : j \in used

NoArg == [id |-> 0, ids |-> {}, name |-> "", names |-> <<>>, overwrite |-> FALSE]

Frame(fn, at) == [fn |-> fn, at |-> at, arg |-> NoArg]

Operation(fn, arg) == [fn |-> fn, at |-> "sets", arg |-> arg]

\* the calls a user of the service makes
Operations ==
  {Frame("getSavedFlashcardSets", "initialize")}
  \cup {Operation("saveFlashcardSet", [NoArg EXCEPT !.name = n]) : n \in SetNames \cup {""}}
  \cup {Operation("deleteFlashcardSet", [NoArg EXCEPT !.id = i]) : i \in 1..MaxSets}
  \cup {Operation("updateFlashcardSet", [NoArg EXCEPT !.id = i, !.name = n]) :
          i \in 1..MaxSets, n \in SetNames \cup {""}}
  \cup {Operation("bulkDeleteFlashcardSets", [NoArg EXCEPT !.ids = 1..k]) : k \in 1..MaxSets}
  \cup {Operation("importFlashcardSets", [NoArg EXCEPT !.names = d, !.overwrite = o]) :
          d \in UNION {[1..k -> SetNames \cup {""}] : k \in 1..MaxSets}, o \in BOOLEAN}

Top == stack[Len(stack)]

Return == stack' = SubSeq(stack, 1, Len(stack) - 1)

\* the top frame calls callee and continues at cont when it returns
Call(callee, start, cont) ==
  IF Len(stack) < MaxStack
  THEN /\ stack' = SubSeq(stack, 1, Len(stack) - 1)
                     \o <<[Top EXCEPT !.at = cont], Frame(callee, start)>>
       /\ thrown' = FALSE
  ELSE /\ stack' = stack
       /\ thrown' = TRUE

Running(fn) == stack # <<>> /\ ~thrown /\ Top.fn = fn

\* a caller of the service starts an operation; the saved-sets entry is kept
\* within the size of the model
AppCalls(op) ==
  /\ stack = <<>>
  /\ op.fn = "saveFlashcardSet" => Len(storedSets) < MaxSets
  /\ op.fn = "importFlashcardSets" => Len(storedSets) + Len(op.arg.names) <= MaxSets
  /\ stack' = <<op>>
  /\ thrown' = FALSE
  /\ UNCHANGED <<metaStored, storedSets, appVars>>

\* getSavedFlashcardSets: initializeDatabase(), then the guarded read
GetSavedFlashcardSets ==
  /\ Running("getSavedFlashcardSets")
  /\ IF Top.at = "initialize"
     THEN Call("initializeDatabase", "check", "read")
     ELSE Return /\ UNCHANGED thrown
  /\ UNCHANGED <<metaStored, storedSets, appVars>>

\* initializeDatabase: without a metadata record migrate, then update
InitializeDatabase ==
  /\ Running("initializeDatabase")
  /\ CASE Top.at = "check" /\ metaStored -> Return /\ UNCHANGED thrown
       [] Top.at = "check" /\ ~metaStored -> Call("migrateDatabaseIfNeeded", "first", "update")
       [] Top.at = "update" -> Call("updateDatabaseMetadata", "sets", "end")
       [] OTHER -> Return /\ UNCHANGED thrown
  /\ UNCHANGED <<metaStored, storedSets, appVars>>

\* migrateDatabaseIfNeeded(undefined)
MigrateDatabaseIfNeeded ==
  /\ Running("migrateDatabaseIfNeeded")
  /\ IF Top.at = "first"
     THEN Call("validateAndCleanupData", "sets", "end")
     ELSE Return /\ UNCHANGED thrown
  /\ UNCHANGED <<metaStored, storedSets, appVars>>

\* validateAndCleanupData: the sets it gets are filtered already, so none is
\* dropped and nothing is written
ValidateAndCleanupData ==
  /\ Running("validateAndCleanupData")
  /\ IF Top.at = "sets"
     THEN Call("getSavedFlashcardSets", "initialize", "filter")
     ELSE Return /\ UNCHANGED thrown
  /\ UNCHANGED <<metaStored, storedSets, appVars>>

\* updateDatabaseMetadata: counts the saved sets and writes the record
UpdateDatabaseMetadata ==
  /\ Running("updateDatabaseMetadata")
  /\ IF Top.at = "sets"
     THEN Call("getSavedFlashcardSets", "initialize", "write") /\ UNCHANGED metaStored
     ELSE Return /\ metaStored' = TRUE /\ UNCHANGED thrown
  /\ UNCHANGED <<storedSets, appVars>>

\* an operation that wrote the entry goes on to updateDatabaseMetadata()
Written(sets) ==
  /\ storedSets' = sets
  /\ Call("updateDatabaseMetadata", "sets", "end")

Unwritten == Return /\ UNCHANGED <<thrown, storedSets>>

NameTaken(sets, n) == \E i \in 1..Len(sets) : LowerName(sets[i].name) = LowerName(n)

\* saveFlashcardSet(name, cards, language, count)
SaveFlashcardSet ==
  /\ Running("saveFlashcardSet")
  /\ CASE Top.at = "sets" /\ Top.arg.name = "" -> Unwritten
       [] Top.at = "sets" /\ Top.arg.name # "" ->
            Call("getSavedFlashcardSets", "initialize", "write") /\ UNCHANGED storedSets
       [] Top.at = "write" /\ NameTaken(ValidSets, Top.arg.name) -> Unwritten
       [] Top.at = "write" /\ ~NameTaken(ValidSets, Top.arg.name) ->
            Written(<<SavedSet(FreshId(IdsOf(storedSets)), Top.arg.name)>> \o ValidSets)
       [] OTHER -> Unwritten
  /\ UNCHANGED <<metaStored, appVars>>

\* deleteFlashcardSet(id)
DeleteFlashcardSet ==
  /\ Running("deleteFlashcardSet")
  /\ CASE Top.at = "sets" -> Call("getSavedFlashcardSets", "initialize", "write") /\ UNCHANGED storedSets
       [] Top.at = "write" /\ Top.arg.id \in IdsOf(ValidSets) ->
            Written(SelectSeq(ValidSets, LAMBDA set : set.id # Top.arg.id))
       [] OTHER -> Unwritten
  /\ UNCHANGED <<metaStored, appVars>>

\* sets[setIndex] = { ...existingSet, ...updates, id }, findIndex taking the
\* first set of that id
Updated(sets, id, name) ==
  [i \in 1..Len(sets) |->
     IF sets[i].id = id /\ \A j \in 1..(i - 1) : sets[j].id # id THEN SavedSet(id, name) ELSE sets[i]]

\* updateFlashcardSet(id, {name})
UpdateFlashcardSet ==
  /\ Running("updateFlashcardSet")
  /\ CASE Top.at = "sets" -> Call("getSavedFlashcardSets", "initialize", "write") /\ UNCHANGED storedSets
       [] Top.at = "write" /\ Top.arg.id \in IdsOf(ValidSets) /\ Top.arg.name # "" ->
            Written(Updated(ValidSets, Top.arg.id, Top.arg.name))
       [] OTHER -> Unwritten
  /\ UNCHANGED <<metaStored, appVars>>

\* bulkDeleteFlashcardSets(ids)
BulkDeleteFlashcardSets ==
  /\ Running("bulkDeleteFlashcardSets")
  /\ CASE Top.at = "sets" -> Call("getSavedFlashcardSets", "initialize", "write") /\ UNCHANGED storedSets
       [] Top.at = "write" /\ Top.arg.ids \cap IdsOf(ValidSets) # {} ->
            Written(SelectSeq(ValidSets, LAMBDA set : set.id \notin Top.arg.ids))
       [] OTHER -> Unwritten
  /\ UNCHANGED <<metaStored, appVars>>

\* existingSets.splice(findIndex(same name), 1)
RemoveNamed(sets, n) ==
  SelectSeq([i \in 1..Len(sets) |->
               IF LowerName(sets[i].name) = LowerName(n)
                  /\ \A j \in 1..(i - 1) : LowerName(sets[j].name) # LowerName(n)
               THEN SavedSet(0, "") ELSE sets[i]],
            LAMBDA set : set.id # 0)

\* the loop of importFlashcardSets over data.sets: existing is existingSets,
\* names is existingNames, valid is validSets, used the ids given out so far
RECURSIVE ImportFrom(_, _, _, _, _, _)
ImportFrom(data, overwrite, existing, names, valid, used) ==
  IF data = <<>> THEN valid \o existing
  ELSE IF Head(data) = ""
       THEN ImportFrom(Tail(data), overwrite, existing, names, valid, used)
  ELSE IF LowerName(Head(data)) \in names /\ ~overwrite
       THEN ImportFrom(Tail(data), overwrite, existing, names, valid, used)
  ELSE ImportFrom(Tail(data), overwrite,
                  IF LowerName(Head(data)) \in names THEN RemoveNamed(existing, Head(data)) ELSE existing,
                  names \cup {LowerName(Head(data))},
                  Append(valid, SavedSet(FreshId(used), Head(data))),
                  used \cup {FreshId(used)})

Imported(data, overwrite) ==
  ImportFrom(data, overwrite, ValidSets, {LowerName(ValidSets[i].name) : i \in 1..Len(ValidSets)},
             <<>>, IdsOf(storedSets))

\* a set of the file is imported unless it is invalid or skipped
ImportsSome(data, overwrite) ==
  \E i \in 1..Len(data) :
    data[i] # "" /\ (overwrite \/ ~NameTaken(ValidSets, data[i]))

\* importFlashcardSets(importData, {overwrite})
ImportFlashcardSets ==
  /\ Running("importFlashcardSets")
  /\ CASE Top.at = "sets" -> Call("getSavedFlashcardSets", "initialize", "write") /\ UNCHANGED storedSets
       [] Top.at = "write" /\ ImportsSome(Top.arg.names, Top.arg.overwrite) ->
            Written(Imported(Top.arg.names, Top.arg.overwrite))
       [] OTHER -> Unwritten
  /\ UNCHANGED <<metaStored, appVars>>

\* frames whose pending call is outside every try block
Unguarded(frame) ==
  \/ frame.fn = "getSavedFlashcardSets"
  \/ frame.fn = "saveFlashcardSet" /\ frame.at \in {"sets", "write"}

\* a try block of the method, or safeStorageOperation, catches and returns
Catch ==
  /\ stack # <<>> /\ thrown
  /\ ~Unguarded(Top)
  /\ Return
  /\ thrown' = FALSE
  /\ UNCHANGED <<metaStored, storedSets, appVars>>

\* the exception leaves the method
Propagate ==
  /\ stack # <<>> /\ thrown
  /\ Unguarded(Top)
  /\ Return
  /\ UNCHANGED <<thrown, metaStored, storedSets, appVars>>

StoreNext ==
  \/ \E op \in Operations : AppCalls(op)
  \/ GetSavedFlashcardSets
  \/ InitializeDatabase
  \/ MigrateDatabaseIfNeeded
  \/ ValidateAndCleanupData
  \/ UpdateDatabaseMetadata
  \/ SaveFlashcardSet
  \/ DeleteFlashcardSet
  \/ UpdateFlashcardSet
  \/ BulkDeleteFlashcardSets
  \/ ImportFlashcardSets
  \/ Catch
  \/ Propagate

StoreSpec == BrowserInit /\ [][StoreNext]_vars

\* initializeDatabase frames on the stack
Initializing == {i \in 1..Len(stack) : stack[i].fn = "initializeDatabase"}

\* C26: on a store without a metadata record initialisation does not
\* re-enter itself through validateAndCleanupData or updateDatabaseMetadata
\* calling getSavedFlashcardSets.
C26_NoReentry == Cardinality(Initializing) <= 1

\* C28: after any sequence of save, update, import and delete operations no
\* two stored sets have the same name, compared without regard to case.
C28_NamesUnique ==
  \A i, j \in 1..Len(storedSets) :
    LowerName(storedSets[i].name) = LowerName(storedSets[j].name) => i = j

\* a request body that passes the worker's validation
IsValidRequest(b) == b.kind \notin {"malformed", "null"} /\ ValidationError(b) = ""

\* C27: with sequential requests, once the stored count is 10 or more every
\* further valid request is answered 429 without a provider call and leaves
\* the counter as it is; so an entry never counts more than 10 generations.
C27_LimitHolds ==
  /\ [](kv.present => kv.value <= KV_LIMIT)
  /\ [][(impl = "worker" /\ pc = "idle" /\ pc' # "idle" /\ RateLimited(kv) /\ IsValidRequest(body'))
          => (pc' = "done" /\ resp'.status = 429 /\ calls' = 0 /\ kv' = kv)]_vars

C27_Witness ==
  /\ impl = "worker" /\ pc = "done" /\ resp.status = 429 /\ calls = 0
  /\ kv.present /\ kv.value = KV_LIMIT /\ IsValidRequest(body)

(***************************************************************************)
(* The service worker, public/sw.js.  A URL is kept as its host, the       *)
(* segments of its path and the extension it ends with.                    *)
(***************************************************************************)
SwRequest(method, host, path, ext, mode, destination) ==
  [method |-> method, host |-> host, path |-> path, ext |-> ext, mode |-> mode,
   destination |-> destination]

\* the root page, STATIC_FILES[0]
RootPage == SwRequest("GET", "app", <<>>, "", "navigate", "document")

SwRequests ==
  {RootPage,
   SwRequest("GET", "app", <<"saved">>, "", "navigate", "document"),
   SwRequest("GET", "app", <<"api", "health">>, "", "navigate", "document"),
   SwRequest("GET", "app", <<"api", "sets">>, "json", "cors", ""),
   SwRequest("GET", "app", <<"api">>, "png", "no-cors", "image"),
   SwRequest("POST", "app", <<"api", "generate-flashcards">>, "", "cors", ""),
   SwRequest("POST", "app", <<"upload">>, "png", "cors", ""),
   SwRequest("GET", "app", <<"photo">>, "", "no-cors", "image"),
   SwRequest("GET", "app", <<"src", "index">>, "js", "no-cors", "script"),
   SwRequest("GET", "app", <<"data">>, "json", "cors", ""),
   SwRequest("GET", "fonts.googleapis.com", <<"css">>, "", "no-cors", "style"),
   SwRequest("GET", "www.google-analytics.com", <<"collect">>, "", "no-cors", "")}

\* url.pathname.startsWith('/api/')
IsApiPath(path) == Len(path) >= 2 /\ path[1] = "api"

\* the hostname checks of the fetch listener
IsTracking(host) == host \in {"www.google-analytics.com", "www.googletagmanager.com"}

\* CACHE_PATTERNS.some(pattern => pattern.test(request.url))
MatchesCachePattern(request) ==
  \/ request.host \in {"fonts.googleapis.com", "fonts.gstatic.com", "cdn.tailwindcss.com"}
  \/ request.ext \in {"png", "jpg", "svg", "js", "css", "woff2"}

IsImageUrl(request) == request.ext \in {"png", "jpg", "svg"}

\* the fetch listener calls respondWith
Intercepts(request) ==
  /\ request.method = "GET"
  /\ ~IsApiPath(request.path)
  /\ ~IsTracking(request.host)

\* caches.match(request), over both caches
CacheMatch(request) == request \in swCaches.static \cup swCaches.dynamic

\* what a handler comes to: a response and the cache it puts a copy in, or
\* an exception
Answer(by, put) == [threw |-> FALSE, by |-> by, put |-> put]
Throws == [threw |-> TRUE, by |-> "", put |-> ""]

\* handleNavigationRequest: net is "ok", "notOk" or "failed"
HandleNavigationRequest(request, net) ==
  IF net = "ok" THEN Answer("network", "dynamic")
  ELSE IF CacheMatch(request) THEN Answer("cache", "")
  ELSE IF CacheMatch(RootPage) THEN Answer("cache", "")
  ELSE Answer("offlinePage", "")

\* handleStaticRequest
HandleStaticRequest(request, net) ==
  IF CacheMatch(request) THEN Answer("cache", "")
  ELSE IF net = "ok" THEN Answer("network", "static")
  ELSE IF IsImageUrl(request) THEN Answer("placeholder", "")
  ELSE Throws

\* handleDynamicRequest
HandleDynamicRequest(request, net) ==
  IF net = "ok" THEN Answer("network", "dynamic")
  ELSE IF CacheMatch(request) THEN Answer("cache", "")
  ELSE Throws

\* handleOfflineFallback
HandleOfflineFallback(request) ==
  IF request.destination = "image" THEN Answer("placeholder", "") ELSE Answer("offline503", "")

\* the body of the try block of handleRequest
Dispatch(request, net) ==
  IF request.mode = "navigate" THEN HandleNavigationRequest(request, net)
  ELSE IF MatchesCachePattern(request) THEN HandleStaticRequest(request, net)
  ELSE HandleDynamicRequest(request, net)

\* a handleRequest without its catch
HandleRequestUncaught(request, net) == Dispatch(request, net)

\* handleRequest
HandleRequest(request, net) ==
  IF Dispatch(request, net).threw THEN HandleOfflineFallback(request) ELSE Dispatch(request, net)

\* cache.put(request, networkResponse.clone()), which is not awaited and may fail
PutCopy(request, put, putOk) ==
  IF put = "" \/ ~putOk THEN swCaches
  ELSE [swCaches EXCEPT ![put] = @ \cup {request}]

\* the install listener: cache.addAll(STATIC_FILES)
Install(ok) ==
  /\ swCaches' = IF ok THEN [swCaches EXCEPT !.static = @ \cup {RootPage}] ELSE swCaches
  /\ UNCHANGED <<answered, serverVars, viewVars, storeVars, statsVars>>

\* the fetch listener, up to the answer the page gets
FetchEvent(request, net, putOk) ==
  /\ IF Intercepts(request)
     THEN /\ answered' = [intercepted |-> TRUE,
                          by |-> IF HandleRequest(request, net).threw THEN "rejected"
                                 ELSE HandleRequest(request, net).by,
                          request |-> request]
          /\ swCaches' = PutCopy(request, HandleRequest(request, net).put, putOk)
     ELSE /\ answered' = [intercepted |-> FALSE, by |-> "browser", request |-> request]
          /\ UNCHANGED swCaches
  /\ UNCHANGED <<serverVars, viewVars, storeVars, statsVars>>

SwNext ==
  \/ \E ok \in BOOLEAN : Install(ok)
  \/ \E request \in SwRequests, net \in {"ok", "notOk", "failed"}, putOk \in BOOLEAN :
       FetchEvent(request, net, putOk)

SwSpec == BrowserInit /\ [][SwNext]_vars

SwAnswers == {"network", "cache", "placeholder", "offlinePage", "offline503"}

\* C29: a request that is not a GET or whose path starts with /api/ is never
\* answered by the service worker and never stored in a cache; every GET it
\* intercepts gets a response (network, cache, placeholder, offline page or
\* the 503 JSON), never a rejection.
C29_SwAnswers ==
  /\ \A r \in swCaches.static \cup swCaches.dynamic : r.method = "GET" /\ ~IsApiPath(r.path)
  /\ answered.by # "" =>
       IF answered.request.method # "GET" \/ IsApiPath(answered.request.path)
       THEN ~answered.intercepted /\ answered.by = "browser"
       ELSE answered.intercepted => answered.by \in SwAnswers

C29_Witness ==
  /\ answered.intercepted /\ answered.by = "offline503"
  /\ answered.request.ext = "js"

(***************************************************************************)
(* The study statistics of the storage service, services/storageService.ts *)
(***************************************************************************)
Stats(studied, correct, streak) ==
  [totalCardsStudied |-> studied, totalCorrectAnswers |-> correct, currentStreak |-> streak]

DEFAULT_STATS == Stats(0, 0, 0)

\* getStats: the stored record spread over the defaults, or the defaults
GetStats ==
  IF statsEntry.present
  THEN Stats(statsEntry.totalCardsStudied, statsEntry.totalCorrectAnswers, statsEntry.currentStreak)
  ELSE DEFAULT_STATS

\* an update that leaves the streak standing after a wrong answer
UpdatedStatsKeepStreak(stats, correct) ==
  Stats(stats.totalCardsStudied + 1,
        IF correct THEN stats.totalCorrectAnswers + 1 ELSE stats.totalCorrectAnswers,
        IF correct THEN stats.currentStreak + 1 ELSE stats.currentStreak)

\* updatedStats of updateStats
UpdatedStats(stats, correct) ==
  Stats(stats.totalCardsStudied + 1,
        IF correct THEN stats.totalCorrectAnswers + 1 ELSE stats.totalCorrectAnswers,
        IF correct THEN stats.currentStreak + 1 ELSE 0)

\* updateStats(correct), called by handleAnswerResponse: getStats, saveStats
UpdateStats(correct) ==
  /\ Len(answers) < MaxAnswers
  /\ statsEntry' = [present |-> TRUE,
                    totalCardsStudied |-> UpdatedStats(GetStats, correct).totalCardsStudied,
                    totalCorrectAnswers |-> UpdatedStats(GetStats, correct).totalCorrectAnswers,
                    currentStreak |-> UpdatedStats(GetStats, correct).currentStreak]
  /\ answers' = Append(answers, correct)
  /\ UNCHANGED <<serverVars, viewVars, storeVars, swVars>>

StatsNext == \E correct \in BOOLEAN : UpdateStats(correct)

StatsSpec == BrowserInit /\ [][StatsNext]_vars

\* the number of correct answers at the end of a sequence of answers
RECURSIVE TrailingCorrect(_)
TrailingCorrect(given) ==
  IF given = <<>> \/ ~given[Len(given)] THEN 0
  ELSE 1 + TrailingCorrect(SubSeq(given, 1, Len(given) - 1))

\* C30: from the default stats, after any sequence of updateStats calls,
\* currentStreak <= totalCorrectAnswers <= totalCardsStudied, the cards
\* studied are as many as the calls, and the streak is the number of correct
\* answers in a row at the end of the sequence.
C30_StatsConsistent ==
  /\ GetStats.currentStreak <= GetStats.totalCorrectAnswers
  /\ GetStats.totalCorrectAnswers <= GetStats.totalCardsStudied
  /\ GetStats.totalCardsStudied = Len(answers)
  /\ GetStats.currentStreak = TrailingCorrect(answers)

C30_Witness ==
  /\ answers = <<TRUE, FALSE, TRUE, TRUE>>
  /\ GetStats = Stats(4, 3, 2)

====
